---- MODULE Spec2Model ----
(***************************************************************************)
(* A model of the second-brain stores: the category-partitioned Entry      *)
(* Store (storage.py) with its two front ends (the agent tools of          *)
(* agent_tools.py and the intent dispatcher of bot-listener-intent-based)  *)
(* and the Reminder Store (reminder_storage.py).                           *)
(*                                                                         *)
(* Every JSON document is modelled by its content: a collection file is    *)
(* the sequence of its records, in file order.  uuid4() is a counter that  *)
(* never repeats, datetime.now() is the instant the clock points at.       *)
(* Confidence values are in tenths (0.7 is 7).                             *)
(***************************************************************************)
EXTENDS Integers, Sequences, FiniteSets, TLC

VARIABLES
    files,      \* STORAGE_FILES: category key -> the entries of its JSON file
    audit,      \* AUDIT_FILE: the audit events, oldest first
    uuids,      \* how many uuid4() values have been drawn
    tick,       \* position of the wall clock in Instants
    reminders,  \* REMINDERS_FILE: the reminder records, in file order
    last,       \* the last operation: its arguments and what it returned
    runs,       \* the local state of each running process_triggered_reminders
    journal,    \* JOURNAL_ENTRIES_DIR: date -> the lines of that day's file
    journal_index,  \* JOURNAL_INDEX: date -> when its file was last written
    conversations,  \* CONVERSATION_FILE: chat key -> started_at and the stored turns
    agent,      \* the local state of the running process_message_with_agent
    moving,     \* the storage.move_entry call under way, between its steps
    appending,  \* the add_message calls under way: what each has loaded
    processor,  \* the local state of process_reminders, and what it has sent
    log         \* history variable: every turn add_message was given, by chat key

vars == <<files, audit, uuids, tick, reminders, last, runs,
          journal, journal_index, conversations, agent, log, moving, appending, processor>>

----------------------------------------------------------------------------
(* Bounds of the exploration *)

\* uuid4() values drawn by operations of the user (entries or reminders)
MaxUuids == 2
\* audit events written
MaxAudit == 3
\* reminder records in the file
MaxReminders == 3

----------------------------------------------------------------------------
(* config.py *)

CATEGORIES == <<"people", "projects", "ideas", "admin">>

\* the keys of STORAGE_FILES, in dict order
StorageKeys == <<"people", "projects", "ideas", "admin", "inbox">>

CONFIDENCE_THRESHOLD == 7

Range(s) == {s[i] : i \in 1..Len(s)}

InCategories(c) == c \in Range(CATEGORIES)

\* STORAGE_FILES.get(category) is not None
HasStorageFile(c) == c \in Range(StorageKeys)

----------------------------------------------------------------------------
(* Inputs *)

\* category names a caller passes: one of CATEGORIES, the inbox, and a name
\* outside the closed set
RequestedCategories == {"people", "inbox", "recipes"}

Confidences == {6, 7}

Messages == {"Felipe is my business partner"}

None == "None"

NoEntry == [id |-> 0]

\* None where a timestamp string or a date is expected
NoTime == <<>>

Min(a, b) == IF a < b THEN a ELSE b

----------------------------------------------------------------------------
(* The wall clock.  A datetime is [year, month, day, hour, tz]; tz is      *)
(* "naive" for a datetime without tzinfo.                                  *)

Dt(y, m, d, h) == [year |-> y, month |-> m, day |-> d, hour |-> h, tz |-> "naive"]

Instants ==
    << Dt(2023, 2, 1, 8), Dt(2024, 3, 1, 8) >>

now == Instants[tick]

\* datetime.isoformat(): the fields in print order, then the offset if any
isoformat(dt) ==
    <<dt.year, dt.month, dt.day, dt.hour>>
        \o (IF dt.tz = "naive" THEN <<>> ELSE <<dt.tz>>)

\* datetime.fromisoformat() of a string isoformat() wrote
fromisoformat(s) ==
    [year |-> s[1], month |-> s[2], day |-> s[3], hour |-> s[4],
     tz |-> IF Len(s) > 4 THEN s[5] ELSE "naive"]

\* two decimal digits, as the %02d and %H, %M, %d formats print them
Pad2(n) == IF n < 10 THEN "0" \o ToString(n) ELSE ToString(n)

\* date.isoformat(): "YYYY-MM-DD"
date_isoformat(dt) ==
    ToString(dt.year) \o "-" \o Pad2(dt.month) \o "-" \o Pad2(dt.day)

\* the timestamps a caller gives write_journal, besides leaving it out
JournalStamps == { Dt(2023, 2, 1, 21) }

\* the calendar dates the journal is asked about: the days the clock and the
\* given timestamps fall on, and a day nothing is ever written on
JournalDates ==
    { date_isoformat(Instants[i]) : i \in 1..Len(Instants) }
        \cup { date_isoformat(dt) : dt \in JournalStamps }
        \cup { "2023-02-02" }

\* a day's file that does not exist
NoFile == <<>>

\* the chats the bot talks in, and str(chat_id)
Chats == {7}

ChatKeys == {ToString(c) : c \in Chats}

\* _load_conversations() when the file does not exist: {}
NoConversations == [k \in {} |-> <<>>]

\* the processes that write the conversation store
Writers == {1, 2}

\* add_message not running
NotAppending ==
    [pc |-> "idle", chat_id |-> 0, content |-> "", loaded |-> NoConversations]

\* process_reminders not running and nothing sent yet; attempted, failed and
\* delivered are history: the ids bot.send_message was called for, in order
IdleProcessor ==
    [pc |-> "idle", triggered |-> <<>>, i |-> 1, enriched_content |-> "",
     attempted |-> <<>>, failed |-> <<>>, delivered |-> <<>>]

\* storage.move_entry not running
NotMoving ==
    [pc |-> "idle", from_category |-> "", to_category |-> "",
     from_entries |-> <<>>, to_entries |-> <<>>, entry |-> NoEntry]

\* no response of the model at hand
NoResponse == [stop_reason |-> "none", content |-> <<>>]

\* process_message_with_agent not running.  issued counts the tool_use ids
\* the API has given out, received the messages handled, rounds the tool
\* rounds of the message at hand, odd the events other than a plain text
\* answer; dispatched lists the ids passed to execute_tool for the message
\* at hand
IdleAgent ==
    [pc |-> "idle", chat_id |-> 0, messages |-> <<>>, response |-> NoResponse,
     i |-> 1, tool_results |-> <<>>, dispatched |-> <<>>, reply |-> "",
     issued |-> 0, received |-> 0, rounds |-> 0, odd |-> 0]

----------------------------------------------------------------------------
(* storage.py: Entry CRUD.  Each operator returns the files as the call    *)
(* leaves them, and what the call returns or raises.                       *)

\* the lookup with the id comparison lost: the first record always matches
FirstIndex_AnyRecord(list, entry_id) ==
    IF Len(list) > 0 THEN 1 ELSE 0

\* index of the first record of list whose id is entry_id, 0 when there is none
FirstIndex(list, entry_id) ==
    IF \E i \in 1..Len(list) : list[i].id = entry_id
    THEN CHOOSE i \in 1..Len(list) :
            /\ list[i].id = entry_id
            /\ \A j \in 1..(i - 1) : list[j].id # entry_id
    ELSE 0

\* list.pop(i)
Pop(list, i) == SubSeq(list, 1, i - 1) \o SubSeq(list, i + 1, Len(list))

storage_create_entry(fs, category, raw_message, confidence, id, at) ==
    LET entry == [id |-> id,
                  timestamp |-> isoformat(at),
                  raw_message |-> <<raw_message>>,
                  category |-> category,
                  confidence |-> confidence,
                  processed_at |-> isoformat(at),
                  corrected_from |-> None]
    IN  IF ~HasStorageFile(category)
        THEN [raised |-> TRUE, entry |-> NoEntry, files |-> fs]
        ELSE [raised |-> FALSE, entry |-> entry,
              files |-> [fs EXCEPT ![category] = Append(@, entry)]]

\* the first category, in STORAGE_FILES order, holding a record with this id
get_entry_by_id(fs, entry_id) ==
    LET hits == {k \in 1..Len(StorageKeys) : FirstIndex(fs[StorageKeys[k]], entry_id) # 0}
    IN  IF hits = {}
        THEN [found |-> FALSE, entry |-> NoEntry, category |-> None]
        ELSE LET k == CHOOSE k \in hits : \A o \in hits : k <= o
                 c == StorageKeys[k]
             IN  [found |-> TRUE, entry |-> fs[c][FirstIndex(fs[c], entry_id)],
                  category |-> c]

\* additional_context is <<>> when the caller passes none
storage_move_entry(fs, entry_id, from_category, to_category, additional_context, at) ==
    IF ~HasStorageFile(from_category) \/ ~HasStorageFile(to_category)
    THEN [entry |-> NoEntry, files |-> fs]
    ELSE LET from_entries == fs[from_category]
             to_entries == fs[to_category]
             i == FirstIndex(from_entries, entry_id)
         IN  IF i = 0
             THEN [entry |-> NoEntry, files |-> fs]
             ELSE LET entry == [from_entries[i] EXCEPT
                                   !.corrected_from = from_category,
                                   !.category = to_category,
                                   !.processed_at = isoformat(at),
                                   !.raw_message = @ \o additional_context]
                      \* _save_json(from_path, ...) then _save_json(to_path, ...)
                      saved_from == [fs EXCEPT ![from_category] = Pop(from_entries, i)]
                      saved_to == [saved_from EXCEPT
                                      ![to_category] = Append(to_entries, entry)]
                  IN  [entry |-> entry, files |-> saved_to]

storage_delete_entry(fs, entry_id, category) ==
    IF ~HasStorageFile(category)
    THEN [deleted |-> FALSE, files |-> fs]
    ELSE LET i == FirstIndex(fs[category], entry_id)
         IN  IF i = 0
             THEN [deleted |-> FALSE, files |-> fs]
             ELSE [deleted |-> TRUE,
                   files |-> [fs EXCEPT ![category] = Pop(@, i)]]

\* log_audit: one event appended to the audit file
log_audit(events, action, item_id, category) ==
    Append(events, [action |-> action, item_id |-> item_id, category |-> category])

----------------------------------------------------------------------------
(* The state after init_storage(): every file holds the empty list *)

Idle == [op |-> "none"]

\* a process_triggered_reminders call that has not begun: its list of due
\* reminders, its position in it, reminders_to_notify, and the reminders it
\* created with the id of the reminder each one follows
IdleRun == [pc |-> "idle", triggered |-> <<>>, i |-> 1, notify |-> <<>>, made |-> <<>>]

Init ==
    /\ files = [c \in Range(StorageKeys) |-> <<>>]
    /\ audit = <<>>
    /\ uuids = 0
    /\ tick = 1
    /\ reminders = <<>>
    /\ last = Idle
    /\ runs = <<IdleRun, IdleRun>>
    /\ journal = [d \in JournalDates |-> NoFile]
    /\ journal_index = [d \in JournalDates |-> NoTime]
    /\ conversations = NoConversations
    /\ agent = IdleAgent
    /\ log = [k \in ChatKeys |-> <<>>]
    /\ moving = NotMoving
    /\ appending = [w \in Writers |-> NotAppending]
    /\ processor = IdleProcessor

\* time passes
Tick ==
    /\ tick < Len(Instants)
    /\ tick' = tick + 1
    /\ UNCHANGED <<files, audit, uuids, reminders, last, runs, journal, journal_index, conversations, agent, log, moving, appending, processor>>

----------------------------------------------------------------------------
(* agent_tools.py: the entry tools *)

\* create_entry without its confidence test
AgentCategory_NoThreshold(category, confidence) ==
    category

\* the category create_entry hands to storage
AgentCategory(category, confidence) ==
    IF confidence < CONFIDENCE_THRESHOLD THEN "inbox" ELSE category

AgentCreateEntry(category, message, confidence) ==
    /\ uuids < MaxUuids
    /\ Len(audit) < MaxAudit
    /\ LET cat == AgentCategory(category, confidence)
           r == storage_create_entry(files, cat, message, confidence, uuids + 1, now)
       IN  /\ uuids' = uuids + 1
           /\ files' = r.files
           /\ audit' = IF r.raised THEN audit
                       ELSE log_audit(audit, "classified", r.entry.id, cat)
           /\ last' = [op |-> "create_entry", flow |-> "agent",
                       requested |-> category, confidence |-> confidence,
                       success |-> ~r.raised, entry |-> r.entry,
                       category |-> IF r.raised THEN None ELSE cat]
    /\ UNCHANGED <<tick, reminders, runs, journal, journal_index, conversations, agent, log, moving, appending, processor>>

AgentMoveEntry(entry_id, from_category, to_category) ==
    /\ Len(audit) < MaxAudit
    /\ LET r == storage_move_entry(files, entry_id, from_category, to_category, <<>>, now)
           moved == r.entry # NoEntry
       IN  /\ files' = r.files
           /\ audit' = IF moved
                       THEN log_audit(audit, "corrected", entry_id, to_category)
                       ELSE audit
           /\ last' = [op |-> "move_entry", entry_id |-> entry_id,
                       from_category |-> from_category,
                       to_category |-> to_category,
                       success |-> moved, entry |-> r.entry]
    /\ UNCHANGED <<uuids, tick, reminders, runs, journal, journal_index, conversations, agent, log, moving, appending, processor>>

\* the delete that also takes the id out of every day's linked_entries
AgentDeleteEntry_Unlink(entry_id, category) ==
    /\ Len(audit) < MaxAudit
    /\ LET r == storage_delete_entry(files, entry_id, category)
       IN  /\ files' = r.files
           /\ audit' = IF r.deleted
                       THEN log_audit(audit, "deleted", entry_id, category)
                       ELSE audit
           /\ journal' = IF r.deleted
                         THEN [d \in DOMAIN journal |->
                                  SelectSeq(journal[d],
                                            LAMBDA line : line # <<"  - ", ToString(entry_id)>>)]
                         ELSE journal
           /\ last' = [op |-> "delete_entry", entry_id |-> entry_id,
                       category |-> category, success |-> r.deleted]
    /\ UNCHANGED <<uuids, tick, reminders, runs, journal_index, conversations, agent, log, moving, appending, processor>>

AgentDeleteEntry(entry_id, category) ==
    /\ Len(audit) < MaxAudit
    /\ LET r == storage_delete_entry(files, entry_id, category)
       IN  /\ files' = r.files
           /\ audit' = IF r.deleted
                       THEN log_audit(audit, "deleted", entry_id, category)
                       ELSE audit
           /\ last' = [op |-> "delete_entry", entry_id |-> entry_id,
                       category |-> category, success |-> r.deleted]
    /\ UNCHANGED <<uuids, tick, reminders, runs, journal, journal_index, conversations, agent, log, moving, appending, processor>>

----------------------------------------------------------------------------
(* bot-listener-intent-based.py: execute_action, action "store" *)

IntentCategory(category, confidence) ==
    LET validated == IF InCategories(category) THEN category ELSE "inbox"
        conf == IF InCategories(category) THEN confidence ELSE Min(confidence, 5)
    IN  IF conf < CONFIDENCE_THRESHOLD THEN "inbox" ELSE validated

IntentConfidence(category, confidence) ==
    IF InCategories(category) THEN confidence ELSE Min(confidence, 5)

IntentStore(category, message, confidence) ==
    /\ uuids < MaxUuids
    /\ Len(audit) < MaxAudit
    /\ LET cat == IntentCategory(category, confidence)
           conf == IntentConfidence(category, confidence)
           r == storage_create_entry(files, cat, message, conf, uuids + 1, now)
       IN  /\ uuids' = uuids + 1
           /\ files' = r.files
           /\ audit' = IF r.raised THEN audit
                       ELSE log_audit(audit, "classified", r.entry.id, cat)
           /\ last' = [op |-> "create_entry", flow |-> "intent",
                       requested |-> category, confidence |-> confidence,
                       success |-> ~r.raised, entry |-> r.entry,
                       category |-> IF r.raised THEN None ELSE cat]
    /\ UNCHANGED <<tick, reminders, runs, journal, journal_index, conversations, agent, log, moving, appending, processor>>

----------------------------------------------------------------------------
(* The Entry Store driven by its callers, one operation at a time *)

EntryIds == 1..MaxUuids

EntryNext ==
    \/ Tick
    \/ \E c \in RequestedCategories, m \in Messages, p \in Confidences :
          AgentCreateEntry(c, m, p)
    \/ \E c \in RequestedCategories, m \in Messages, p \in Confidences :
          IntentStore(c, m, p)
    \/ \E id \in EntryIds, a \in RequestedCategories, b \in RequestedCategories :
          AgentMoveEntry(id, a, b)
    \/ \E id \in EntryIds, c \in RequestedCategories :
          AgentDeleteEntry(id, c)

----------------------------------------------------------------------------
(* Vocabulary of the claims about the Entry Store *)

\* how many records of list carry this id
Count(list, id) == Cardinality({i \in 1..Len(list) : list[i].id = id})

\* how many records of the whole base carry this id
TotalCount(fs, id) ==
    Count(fs["people"], id) + Count(fs["projects"], id) + Count(fs["ideas"], id)
        + Count(fs["admin"], id) + Count(fs["inbox"], id)

Stored(fs, c, entry) == \E i \in 1..Len(fs[c]) : fs[c][i] = entry

ClosedSet == {"people", "projects", "ideas", "admin", "inbox"}

\* C1: an entry created by the create_entry tool or by the intent flow's
\* "store" with confidence below CONFIDENCE_THRESHOLD is created, carries
\* category "inbox" and lies in the inbox collection and in no other,
\* whatever category was requested.
C1_LowConfidenceToInbox ==
    (last.op = "create_entry" /\ last.confidence < 7) =>
        /\ last.success
        /\ last.entry.category = "inbox"
        /\ Stored(files, "inbox", last.entry)
        /\ Count(files["inbox"], last.entry.id) = 1
        /\ TotalCount(files, last.entry.id) = 1

C1_Witness ==
    /\ last.op = "create_entry"
    /\ last.flow = "agent"
    /\ last.requested = "recipes"
    /\ last.confidence < 7
    /\ last.success
    /\ Stored(files, "inbox", last.entry)

\* C2: creating an entry under a category name outside the closed set is
\* never rejected: whatever the confidence, the create reports success and
\* the entry lies in the inbox collection.
C2_UnknownCategoryToInbox ==
    (last.op = "create_entry" /\ last.requested \notin ClosedSet) =>
        /\ last.success
        /\ Stored(files, "inbox", last.entry)

\* C3: after move_entry(id, A, B) on an entry present in A, with B # A,
\* get_entry_by_id(id) returns the entry with category B and corrected_from
\* A, the id is no longer in A's collection and is exactly once in B's.
C3_MoveThenGet ==
    (/\ last.op = "move_entry"
     /\ last.success
     /\ last.from_category # last.to_category) =>
        LET got == get_entry_by_id(files, last.entry_id)
        IN  /\ got.found
            /\ got.category = last.to_category
            /\ got.entry.category = last.to_category
            /\ got.entry.corrected_from = last.from_category
            /\ Count(files[last.from_category], last.entry_id) = 0
            /\ Count(files[last.to_category], last.entry_id) = 1

\* C4: moving an entry to the category it is already in returns success
\* and changes nothing: the collection is as before, so the entry is in it
\* exactly once with every field as it was.
C4_SameCategoryMoveIsNoOp ==
    [][(/\ last'.op = "move_entry"
        /\ AgentMoveEntry(last'.entry_id, last'.from_category, last'.to_category)
        /\ last'.from_category = last'.to_category
        /\ last'.from_category \in ClosedSet
        /\ Count(files[last'.from_category], last'.entry_id) = 1) =>
          (last'.success /\ files' = files)]_vars

\* C5: move_entry with an id that is not in the from_category collection,
\* or with an unknown from or to category, returns failure, leaves every
\* collection as it was and appends no audit event.
C5_FailedMoveChangesNothing ==
    [][(/\ last'.op = "move_entry"
        /\ AgentMoveEntry(last'.entry_id, last'.from_category, last'.to_category)
        /\ \/ last'.from_category \notin ClosedSet
           \/ last'.to_category \notin ClosedSet
           \/ Count(files[last'.from_category], last'.entry_id) = 0) =>
          (/\ ~last'.success
           /\ files' = files
           /\ audit' = audit)]_vars

\* a failed move of an id that exists, in another category than the one named
C5_Witness ==
    /\ last.op = "move_entry"
    /\ ~last.success
    /\ last.from_category \in ClosedSet
    /\ last.to_category \in ClosedSet
    /\ TotalCount(files, last.entry_id) = 1
    /\ Count(files[last.from_category], last.entry_id) = 0
    /\ audit # <<>>

Audited(action) == {audit[i].item_id : i \in {j \in 1..Len(audit) : audit[j].action = action}}

\* C6: after any sequence of create, move and delete operations every entry
\* id is in at most one collection and at most once in it, and an entry
\* that was created and not deleted is in exactly one.
C6_OneCollectionPerEntry ==
    \A id \in 1..MaxUuids :
        /\ TotalCount(files, id) <= 1
        /\ (id \in Audited("classified") /\ id \notin Audited("deleted")) =>
              TotalCount(files, id) = 1

SpecEntries == Init /\ [][EntryNext]_vars

----------------------------------------------------------------------------
(* The calendar of datetime: what timedelta arithmetic and                 *)
(* datetime.replace do to a [year, month, day, hour, tz] value.            *)

IsLeap(y) == (y % 4 = 0) /\ ((y % 100 # 0) \/ (y % 400 = 0))

DaysInMonth(y, m) ==
    IF m = 2 THEN (IF IsLeap(y) THEN 29 ELSE 28)
    ELSE IF m \in {4, 6, 9, 11} THEN 30 ELSE 31

NextDay(dt) ==
    IF dt.day < DaysInMonth(dt.year, dt.month)
    THEN [dt EXCEPT !.day = @ + 1]
    ELSE IF dt.month < 12
         THEN [dt EXCEPT !.day = 1, !.month = @ + 1]
         ELSE [dt EXCEPT !.day = 1, !.month = 1, !.year = @ + 1]

PrevDay(dt) ==
    IF dt.day > 1
    THEN [dt EXCEPT !.day = @ - 1]
    ELSE IF dt.month > 1
         THEN [dt EXCEPT !.day = DaysInMonth(dt.year, dt.month - 1), !.month = @ - 1]
         ELSE [dt EXCEPT !.day = 31, !.month = 12, !.year = @ - 1]

RECURSIVE PlusDays(_, _)
\* dt + timedelta(days=n), n >= 0
PlusDays(dt, n) == IF n = 0 THEN dt ELSE PlusDays(NextDay(dt), n - 1)

RECURSIVE MinusDays(_, _)
\* dt - timedelta(days=n), n >= 0
MinusDays(dt, n) == IF n = 0 THEN dt ELSE MinusDays(PrevDay(dt), n - 1)

\* dt.replace(year=y, month=m, day=d) raises ValueError
ReplaceRaises(y, m, d) == d > DaysInMonth(y, m)

\* a <= b for two datetimes without tzinfo
NaiveLeq(a, b) ==
    \/ a.year < b.year
    \/ a.year = b.year /\ a.month < b.month
    \/ a.year = b.year /\ a.month = b.month /\ a.day < b.day
    \/ a.year = b.year /\ a.month = b.month /\ a.day = b.day /\ a.hour <= b.hour

----------------------------------------------------------------------------
(* reminder_storage.py *)

DEFAULT_REMINDER_HOUR == 9

\* create_reminder's trigger_time when the caller passes none
DefaultTrigger(at) == [PlusDays(at, 1) EXCEPT !.hour = DEFAULT_REMINDER_HOUR]

\* the record create_reminder appends; created_at, never read, is left out
NewReminder(id, content, trigger_time, repeat, reference_entry_id, journal_date) ==
    [id |-> id,
     content |-> content,
     trigger_time |-> isoformat(trigger_time),
     repeat |-> repeat,
     status |-> "pending",
     reference_entry_id |-> reference_entry_id,
     journal_date |-> journal_date,
     updated_at |-> NoTime]

create_reminder(rems, id, content, trigger_time, repeat, reference_entry_id, journal_date) ==
    Append(rems, NewReminder(id, content, trigger_time, repeat,
                             reference_entry_id, journal_date))

\* the first record with this id gets the status, whatever status it had;
\* completed_at, written together with updated_at, is left out
update_reminder_status(rems, reminder_id, new_status, at) ==
    LET i == FirstIndex(rems, reminder_id)
    IN  IF i = 0
        THEN [found |-> FALSE, reminders |-> rems]
        ELSE [found |-> TRUE,
              reminders |-> [rems EXCEPT ![i].status = new_status,
                                         ![i].updated_at = isoformat(at)]]

delete_reminder(rems, reminder_id) ==
    LET kept == SelectSeq(rems, LAMBDA r : r.id # reminder_id)
    IN  [deleted |-> Len(kept) < Len(rems), reminders |-> kept]

\* the due test that also takes reminders whose status is triggered
ShouldTrigger_AnyStatus(reminder, at) ==
    /\ reminder.status # "completed"
    /\ LET trigger_time == fromisoformat(reminder.trigger_time)
       IN  /\ trigger_time.tz = "naive"
           /\ NaiveLeq(trigger_time, at)

\* the due test that skips only what has fired and is waiting
ShouldTrigger_NotTriggered(reminder, at) ==
    /\ reminder.status # "triggered"
    /\ LET trigger_time == fromisoformat(reminder.trigger_time)
       IN  /\ trigger_time.tz = "naive"
           /\ NaiveLeq(trigger_time, at)

\* the due test that takes a completed reminder for a pending one
ShouldTrigger_Completed(reminder, at) ==
    /\ reminder.status \in {"pending", "completed"}
    /\ LET trigger_time == fromisoformat(reminder.trigger_time)
       IN  /\ trigger_time.tz = "naive"
           /\ NaiveLeq(trigger_time, at)

\* the test of get_triggered_reminders' loop body; comparing a datetime that
\* carries an offset with datetime.now() raises TypeError, which is swallowed
ShouldTrigger(reminder, at) ==
    /\ reminder.status = "pending"
    /\ LET trigger_time == fromisoformat(reminder.trigger_time)
       IN  /\ trigger_time.tz = "naive"
           /\ NaiveLeq(trigger_time, at)

get_triggered_reminders(rems, at) ==
    SelectSeq(rems, LAMBDA r : ShouldTrigger(r, at))

\* the monthly branch with the overflow handled by wrapping into the month after
MonthlyNext_Overflow(trigger_time) ==
    LET next_month == IF trigger_time.month + 1 > 12 THEN 1 ELSE trigger_time.month + 1
        next_year == IF trigger_time.month + 1 > 12
                     THEN trigger_time.year + 1 ELSE trigger_time.year
        first == [trigger_time EXCEPT !.year = next_year, !.month = next_month, !.day = 1]
    IN  PlusDays(first, trigger_time.day - 1)

\* "same day next month", the last day of that month when the day overflows
MonthlyNext(trigger_time) ==
    LET next_month == IF trigger_time.month + 1 > 12 THEN 1 ELSE trigger_time.month + 1
        next_year == IF trigger_time.month + 1 > 12
                     THEN trigger_time.year + 1 ELSE trigger_time.year
    IN  IF ~ReplaceRaises(next_year, next_month, trigger_time.day)
        THEN [trigger_time EXCEPT !.year = next_year, !.month = next_month]
        ELSE LET first == [trigger_time EXCEPT
                              !.year = next_year, !.month = next_month, !.day = 1]
                 after == PlusDays([first EXCEPT !.day = 1], 32)
             IN  MinusDays([after EXCEPT !.day = 1], 1)

\* the weekly branch lost
Spawns_NoWeekly(repeat) == repeat \in {"daily", "monthly"}

\* the repeat values for which process_triggered_reminders creates a reminder
Spawns(repeat) == repeat \in {"daily", "weekly", "monthly"}

NextTrigger(trigger_time, repeat) ==
    IF repeat = "daily" THEN PlusDays(trigger_time, 1)
    ELSE IF repeat = "weekly" THEN PlusDays(trigger_time, 7)
    ELSE MonthlyNext(trigger_time)

\* the next occurrence marked triggered in the same pass when it is already
\* due
ProcessOne_Eager(st, reminder, at) ==
    LET updated == update_reminder_status(st.reminders, reminder.id, "triggered", at).reminders
        notify == Append(st.notify, reminder)
        next == NextTrigger(fromisoformat(reminder.trigger_time), reminder.repeat)
        created == create_reminder(updated, st.uuids + 1, reminder.content, next,
                                   reminder.repeat, reminder.reference_entry_id, NoTime)
    IN  IF Spawns(reminder.repeat)
        THEN [reminders |->
                 IF NaiveLeq(next, at)
                 THEN update_reminder_status(created, st.uuids + 1, "triggered", at).reminders
                 ELSE created,
              uuids |-> st.uuids + 1,
              notify |-> notify]
        ELSE [reminders |-> updated, uuids |-> st.uuids, notify |-> notify]

\* one pass of the loop body for the snapshot record reminder: the status
\* write, then the next occurrence if the reminder repeats
ProcessOne(st, reminder, at) ==
    LET updated == update_reminder_status(st.reminders, reminder.id, "triggered", at).reminders
        notify == Append(st.notify, reminder)
    IN  IF Spawns(reminder.repeat)
        THEN [reminders |->
                 create_reminder(updated, st.uuids + 1, reminder.content,
                                 NextTrigger(fromisoformat(reminder.trigger_time),
                                             reminder.repeat),
                                 reminder.repeat, reminder.reference_entry_id, NoTime),
              uuids |-> st.uuids + 1,
              notify |-> notify]
        ELSE [reminders |-> updated, uuids |-> st.uuids, notify |-> notify]

RECURSIVE ProcessFrom(_, _, _, _)
\* the loop over triggered[i..]
ProcessFrom(st, triggered, i, at) ==
    IF i > Len(triggered) THEN st
    ELSE ProcessFrom(ProcessOne(st, triggered[i], at), triggered, i + 1, at)

process_triggered_reminders(rems, drawn, at) ==
    ProcessFrom([reminders |-> rems, uuids |-> drawn, notify |-> <<>>],
                get_triggered_reminders(rems, at), 1, at)

----------------------------------------------------------------------------
(* The Reminder Store driven one operation at a time *)

Req(content, trigger_time, repeat) ==
    [content |-> content, trigger_time |-> trigger_time, repeat |-> repeat]

Utc(dt) == [dt EXCEPT !.tz = "+00:00"]

\* the trigger_time a caller passes: none, a local time, or a time with an offset
Omitted == [Dt(0, 0, 0, 0) EXCEPT !.tz = None]

\* what callers ask for: a content, a trigger_time (none, a local time, or a
\* time with an offset) and a repeat
Requests ==
    { Req("take pills", Omitted, "daily"),
      Req("call dentist", Dt(2023, 1, 31, 9), "none"),
      Req("water plants", Dt(2023, 1, 31, 9), "weekly"),
      Req("pay rent", Dt(2023, 1, 31, 9), "monthly"),
      Req("pay rent", Dt(2023, 12, 31, 15), "monthly"),
      Req("call dentist", Utc(Dt(2023, 1, 31, 9)), "daily") }

TriggerOf(input, at) == IF input = Omitted THEN DefaultTrigger(at) ELSE input

\* create_reminder called by the create_reminder tool
CreateReminder(content, input, repeat) ==
    /\ uuids < MaxUuids
    /\ Len(reminders) < MaxReminders
    /\ uuids' = uuids + 1
    /\ reminders' = create_reminder(reminders, uuids + 1, content,
                                    TriggerOf(input, now), repeat, 0, NoTime)
    /\ last' = [op |-> "create_reminder", id |-> uuids + 1]
    /\ UNCHANGED <<files, audit, tick, runs, journal, journal_index, conversations, agent, log, moving, appending, processor>>

CompleteReminder(reminder_id) ==
    /\ LET r == update_reminder_status(reminders, reminder_id, "completed", now)
       IN  /\ reminders' = r.reminders
           /\ last' = [op |-> "complete_reminder", id |-> reminder_id,
                       success |-> r.found]
    /\ UNCHANGED <<files, audit, uuids, tick, runs, journal, journal_index, conversations, agent, log, moving, appending, processor>>

DeleteReminder(reminder_id) ==
    /\ LET r == delete_reminder(reminders, reminder_id)
       IN  /\ reminders' = r.reminders
           /\ last' = [op |-> "delete_reminder", id |-> reminder_id,
                       success |-> r.deleted]
    /\ UNCHANGED <<files, audit, uuids, tick, runs, journal, journal_index, conversations, agent, log, moving, appending, processor>>

\* how many reminders the next run will create
DueSpawns == Len(SelectSeq(get_triggered_reminders(reminders, now),
                           LAMBDA r : Spawns(r.repeat)))

\* one whole run of process_triggered_reminders
ProcessTriggeredReminders ==
    /\ Len(reminders) + DueSpawns <= MaxReminders
    /\ LET r == process_triggered_reminders(reminders, uuids, now)
       IN  /\ reminders' = r.reminders
           /\ uuids' = r.uuids
           /\ last' = [op |-> "process_triggered_reminders", at |-> tick,
                       returned |-> r.notify]
    /\ UNCHANGED <<files, audit, tick, runs, journal, journal_index, conversations, agent, log, moving, appending, processor>>

ReminderIds == 1..MaxReminders

ReminderNext ==
    \/ Tick
    \/ \E q \in Requests : CreateReminder(q.content, q.trigger_time, q.repeat)
    \/ \E id \in ReminderIds : CompleteReminder(id)
    \/ \E id \in ReminderIds : DeleteReminder(id)
    \/ ProcessTriggeredReminders

SpecReminders == Init /\ [][ReminderNext]_vars

----------------------------------------------------------------------------
(* Vocabulary of the claims about the Reminder Store *)

\* a timestamp string without offset as one number, ordered as the instants are
Stamp(s) == ((s[1] * 100 + s[2]) * 100 + s[3]) * 100 + s[4]

\* r is pending and its trigger time, a local time, is at or before the clock
Due(r) ==
    /\ r.status = "pending"
    /\ Len(r.trigger_time) = 4
    /\ Stamp(r.trigger_time) <= Stamp(isoformat(now))

Repeating(r) == r.repeat \in {"daily", "weekly", "monthly"}

\* the due repeating reminders, in file order
DueRepeating == SelectSeq(reminders, LAMBDA r : Due(r) /\ Repeating(r))

\* the records the step appended to the file
Appended == SubSeq(reminders', Len(reminders) + 1, Len(reminders'))

Ids(list) == {list[i].id : i \in 1..Len(list)}

MonthLengths == <<31, 28, 31, 30, 31, 30, 31, 31, 30, 31, 30, 31>>

DaysBefore == <<0, 31, 59, 90, 120, 151, 181, 212, 243, 273, 304, 334>>

LeapYear(y) == y % 400 = 0 \/ (y % 4 = 0 /\ y % 100 # 0)

LastDay(y, m) == IF m = 2 /\ LeapYear(y) THEN 29 ELSE MonthLengths[m]

\* the proleptic Gregorian day number of the date of a timestamp string
DayNumber(s) ==
    LET y == s[1] - 1
    IN  365 * y + (y \div 4) - (y \div 100) + (y \div 400)
          + DaysBefore[s[2]] + (IF s[2] > 2 /\ LeapYear(s[1]) THEN 1 ELSE 0) + s[3]

ValidStamp(s) ==
    /\ Len(s) = 4
    /\ s[2] \in 1..12
    /\ s[3] \in 1..LastDay(s[1], s[2])

\* next is the occurrence after trigger under repeat
IsNextOccurrence(trigger, repeat, next) ==
    /\ ValidStamp(next)
    /\ next[4] = trigger[4]
    /\ repeat = "daily" => DayNumber(next) = DayNumber(trigger) + 1
    /\ repeat = "weekly" => DayNumber(next) = DayNumber(trigger) + 7
    /\ repeat = "monthly" =>
          /\ next[2] = (trigger[2] % 12) + 1
          /\ next[1] = trigger[1] + (IF trigger[2] = 12 THEN 1 ELSE 0)
          /\ next[3] = Min(trigger[3], LastDay(next[1], next[2]))

\* C8: the reminder created for a due repeating reminder R has R's
\* trigger_time plus one day (daily), plus seven days (weekly), or the same
\* day and hour of the following month, the last day of that month when the
\* day does not exist in it (monthly).
C8_NextTriggerTime ==
    [][(last'.op = "process_triggered_reminders" /\ ProcessTriggeredReminders) =>
          \A k \in 1..Len(DueRepeating) :
             /\ k <= Len(Appended)
             /\ IsNextOccurrence(DueRepeating[k].trigger_time,
                                 DueRepeating[k].repeat,
                                 Appended[k].trigger_time)]_vars

\* the chain Dec 31 2023, Jan 31 2024, Feb 29 2024 of a monthly reminder
C8_Witness ==
    /\ last.op = "process_triggered_reminders"
    /\ Len(reminders) = 3
    /\ reminders[1].trigger_time = <<2023, 12, 31, 15>>
    /\ reminders[2].trigger_time = <<2024, 1, 31, 15>>
    /\ reminders[3].trigger_time = <<2024, 2, 29, 15>>
    /\ reminders[3].status = "pending"

\* C9: a run that directly follows another run under the same clock returns
\* none of the reminders the first run returned, leaves their records as
\* they are, and creates reminders only for the repeating reminders it
\* returns itself.
C9_SecondRunTriggersNothingAgain ==
    [][(/\ last.op = "process_triggered_reminders"
        /\ last.at = tick
        /\ ProcessTriggeredReminders) =>
          /\ Ids(last.returned) \cap Ids(last'.returned) = {}
          /\ \A k \in 1..Len(reminders) :
                reminders[k].id \in Ids(last.returned) => reminders'[k] = reminders[k]
          /\ Len(Appended) = Len(SelectSeq(last'.returned, Repeating))]_vars

\* a run returned nothing although a repeating reminder, triggered under
\* this clock by an earlier run, is in the file with its successor
C9_Witness ==
    /\ last.op = "process_triggered_reminders"
    /\ last.at = tick
    /\ last.returned = <<>>
    /\ Len(reminders) = 2
    /\ reminders[1].status = "triggered"
    /\ reminders[1].updated_at = isoformat(now)
    /\ reminders[1].repeat = "weekly"
    /\ reminders[2].status = "pending"
    /\ reminders[2].repeat = "weekly"

----------------------------------------------------------------------------
(* process_triggered_reminders run by two processes at once.  A step is    *)
(* one call that reads or rewrites the reminders file.                     *)

Runs == {1, 2}

\* the position after triggered[i] is done with
Advance(run) ==
    [run EXCEPT !.i = @ + 1,
                !.pc = IF run.i + 1 > Len(run.triggered) THEN "done" ELSE "update"]

\* triggered = get_triggered_reminders()
RunStart(p) ==
    /\ runs[p].pc = "idle"
    /\ LET triggered == get_triggered_reminders(reminders, now)
       IN  runs' = [runs EXCEPT ![p] =
                       [IdleRun EXCEPT !.triggered = triggered,
                                       !.pc = IF triggered = <<>> THEN "done"
                                              ELSE "update"]]
    /\ UNCHANGED <<files, audit, uuids, tick, reminders, last, journal, journal_index, conversations, agent, log, moving, appending, processor>>

\* update_reminder_status(reminder["id"], "triggered"), then the append to
\* reminders_to_notify
RunUpdate(p) ==
    /\ runs[p].pc = "update"
    /\ LET run == runs[p]
           reminder == run.triggered[run.i]
           noted == [run EXCEPT !.notify = Append(@, reminder)]
       IN  /\ reminders' = update_reminder_status(reminders, reminder.id,
                                                  "triggered", now).reminders
           /\ runs' = [runs EXCEPT ![p] =
                          IF Spawns(reminder.repeat)
                          THEN [noted EXCEPT !.pc = "create"]
                          ELSE Advance(noted)]
    /\ UNCHANGED <<files, audit, uuids, tick, last, journal, journal_index, conversations, agent, log, moving, appending, processor>>

\* create_reminder(...) for the next occurrence
RunCreate(p) ==
    /\ runs[p].pc = "create"
    /\ LET run == runs[p]
           reminder == run.triggered[run.i]
       IN  /\ reminders' =
                 create_reminder(reminders, uuids + 1, reminder.content,
                                 NextTrigger(fromisoformat(reminder.trigger_time),
                                             reminder.repeat),
                                 reminder.repeat, reminder.reference_entry_id, NoTime)
           /\ uuids' = uuids + 1
           /\ runs' = [runs EXCEPT ![p] =
                          Advance([run EXCEPT !.made =
                                      Append(@, [follows |-> reminder.id,
                                                 id |-> uuids + 1])])]
    /\ UNCHANGED <<files, audit, tick, last, journal, journal_index, conversations, agent, log, moving, appending, processor>>

ReentrantNext ==
    \/ Tick
    \/ \E q \in Requests : CreateReminder(q.content, q.trigger_time, q.repeat)
    \/ \E p \in Runs : RunStart(p)
    \/ \E p \in Runs : RunUpdate(p)
    \/ \E p \in Runs : RunCreate(p)

SpecReentrant == Init /\ [][ReentrantNext]_vars

\* how many reminders the two runs created to follow reminder id
MadeFor(id) ==
    Cardinality({i \in 1..Len(runs[1].made) : runs[1].made[i].follows = id})
      + Cardinality({i \in 1..Len(runs[2].made) : runs[2].made[i].follows = id})

\* C10: when two runs have both read a due repeating reminder as pending
\* (both read the list before either wrote its status) and both have
\* ended, the reminder has exactly one next occurrence and was returned by
\* only one of the runs.
C10_ReentryTriggersOnce ==
    (runs[1].pc = "done" /\ runs[2].pc = "done") =>
        \A i \in 1..Len(runs[1].triggered), j \in 1..Len(runs[2].triggered) :
            (/\ runs[1].triggered[i].id = runs[2].triggered[j].id
             /\ Repeating(runs[1].triggered[i])) =>
                /\ MadeFor(runs[1].triggered[i].id) = 1
                /\ ~(/\ runs[1].triggered[i].id \in Ids(runs[1].notify)
                     /\ runs[1].triggered[i].id \in Ids(runs[2].notify))

----------------------------------------------------------------------------
(* journal_storage.py: one text file per calendar day.  A file is the      *)
(* sequence of its lines and a line the sequence of its pieces of text.    *)

Fence == <<"---">>

Blank == <<"">>

LinkedKey == <<"linked_entries:">>

LinkedItem(entry_id) == <<"  - ", entry_id>>

WeekdayNames ==
    <<"Saturday", "Sunday", "Monday", "Tuesday", "Wednesday", "Thursday", "Friday">>

MonthNames ==
    <<"January", "February", "March", "April", "May", "June", "July",
      "August", "September", "October", "November", "December">>

\* strftime('%A'): the day of the week of a date, by Zeller's congruence
Weekday(dt) ==
    LET m == IF dt.month < 3 THEN dt.month + 12 ELSE dt.month
        y == IF dt.month < 3 THEN dt.year - 1 ELSE dt.year
        K == y % 100
        J == y \div 100
        h == (dt.day + ((13 * (m + 1)) \div 5) + K + (K \div 4) + (J \div 4) + 5 * J) % 7
    IN  WeekdayNames[h + 1]

\* strftime('%A, %B %d, %Y')
strftime_title(dt) ==
    Weekday(dt) \o ", " \o MonthNames[dt.month] \o " " \o Pad2(dt.day)
        \o ", " \o ToString(dt.year)

\* strftime('%H:%M'); the clock of the model has whole hours
strftime_HM(dt) == Pad2(dt.hour) \o ":00"

\* what write_journal writes first into a file it creates
FrontMatter(target_date, stamp, linked_entries) ==
    <<Fence, <<"date: ", target_date>>>>
        \o (IF linked_entries # <<>>
            THEN <<LinkedKey>> \o [i \in 1..Len(linked_entries) |->
                                       LinkedItem(linked_entries[i])]
            ELSE <<>>)
        \o <<Fence, Blank, <<"# ", strftime_title(stamp)>>, Blank>>

\* the timestamped section write_journal appends
Section(stamp, content) ==
    << <<"## ", strftime_HM(stamp)>>, Blank, <<content>>, Blank >>

\* the write with the file opened for writing instead of appending
journal_write_Truncate(docs, index, content, timestamp, linked_entries, at) ==
    LET stamp       == IF timestamp.tz = None THEN at ELSE timestamp
        target_date == date_isoformat(stamp)
    IN  [journal       |-> [docs EXCEPT ![target_date] = Section(stamp, content)],
         journal_index |-> [index EXCEPT ![target_date] = isoformat(at)],
         result        |-> [success |-> TRUE, journal_date |-> target_date,
                            timestamp |-> isoformat(stamp)]]

\* journal_storage.write_journal; timestamp is Omitted when the caller gives none
journal_write(docs, index, content, timestamp, linked_entries, at) ==
    LET stamp       == IF timestamp.tz = None THEN at ELSE timestamp
        target_date == date_isoformat(stamp)
        is_new      == docs[target_date] = NoFile
        written     == (IF is_new
                        THEN FrontMatter(target_date, stamp, linked_entries)
                        ELSE <<>>) \o Section(stamp, content)
    IN  [journal       |-> [docs EXCEPT ![target_date] = @ \o written],
         journal_index |-> [index EXCEPT ![target_date] = isoformat(at)],
         result        |-> [success |-> TRUE, journal_date |-> target_date,
                            timestamp |-> isoformat(stamp)]]

\* content.find("---\n", 4): the line that closes the header, 0 when none does
FrontMatterEnd(content) ==
    IF \E i \in 2..Len(content) : content[i] = Fence
    THEN CHOOSE i \in 2..Len(content) :
            /\ content[i] = Fence
            /\ \A j \in 2..(i - 1) : content[j] # Fence
    ELSE 0

\* "linked_entries:" in line
HasLinkedKey(line) == \E k \in 1..Len(line) : line[k] = "linked_entries:"

\* line.strip().startswith("- ")
IsItem(line) == Len(line) > 1 /\ line[1] = "  - "

RECURSIVE LinkedFrom(_, _, _)
\* the loop of read_journal over the header lines from line i on
LinkedFrom(lines, i, in_linked) ==
    IF i > Len(lines) THEN <<>>
    ELSE IF HasLinkedKey(lines[i]) THEN LinkedFrom(lines, i + 1, TRUE)
    ELSE IF in_linked /\ IsItem(lines[i])
         THEN <<lines[i][2]>> \o LinkedFrom(lines, i + 1, TRUE)
    ELSE LinkedFrom(lines, i + 1, FALSE)

\* journal_storage.read_journal
read_journal(docs, target_date) ==
    LET content == docs[target_date]
        end     == FrontMatterEnd(content)
    IN  IF content = NoFile
        THEN [journal_date |-> target_date, content |-> NoFile,
              linked_entries |-> <<>>, exists |-> FALSE]
        ELSE [journal_date |-> target_date, content |-> content,
              linked_entries |->
                  IF content[1] = Fence /\ end # 0
                  THEN LinkedFrom(SubSeq(content, 2, end - 1), 1, FALSE)
                  ELSE <<>>,
              exists |-> TRUE]

RECURSIVE AfterEachKey(_, _, _)
\* the header lines with the new item put after every line holding the key
AfterEachKey(lines, i, entry_id) ==
    IF i > Len(lines) THEN <<>>
    ELSE <<lines[i]>>
            \o (IF HasLinkedKey(lines[i]) THEN <<LinkedItem(entry_id)>> ELSE <<>>)
            \o AfterEachKey(lines, i + 1, entry_id)

\* the early return lost: a missing file counts as patched
add_linked_entry_to_journal_NoCheck(docs, journal_date, entry_id) ==
    [ok |-> TRUE, journal |-> docs]

\* the file written back without its body
add_linked_entry_to_journal_NoBody(docs, journal_date, entry_id) ==
    LET content == docs[journal_date]
        end     == FrontMatterEnd(content)
        front   == SubSeq(content, 2, end - 1)
        patched == IF \E i \in 1..Len(front) : HasLinkedKey(front[i])
                   THEN AfterEachKey(front, 1, entry_id)
                   ELSE front \o <<Blank, LinkedKey, LinkedItem(entry_id)>>
    IN  IF content = NoFile \/ content[1] # Fence \/ end = 0
        THEN [ok |-> FALSE, journal |-> docs]
        ELSE [ok |-> TRUE,
              journal |-> [docs EXCEPT ![journal_date] =
                              <<Fence>> \o patched \o <<Fence>>]]

\* journal_storage.add_linked_entry_to_journal
add_linked_entry_to_journal(docs, journal_date, entry_id) ==
    LET content == docs[journal_date]
        end     == FrontMatterEnd(content)
        front   == SubSeq(content, 2, end - 1)
        body    == SubSeq(content, end + 1, Len(content))
        patched == IF \E i \in 1..Len(front) : HasLinkedKey(front[i])
                   THEN AfterEachKey(front, 1, entry_id)
                   ELSE front \o <<Blank, LinkedKey, LinkedItem(entry_id)>>
    IN  IF content = NoFile \/ content[1] # Fence \/ end = 0
        THEN [ok |-> FALSE, journal |-> docs]
        ELSE [ok |-> TRUE,
              journal |-> [docs EXCEPT ![journal_date] =
                              <<Fence>> \o patched \o <<Fence>> \o body]]

----------------------------------------------------------------------------
(* Completing reminders: add_completion_note, the complete_reminder tool   *)
(* and the review of a diary entry that the write_journal tool runs.       *)

\* sections written into one day's file
MaxSections == 2

\* the record add_completion_note leaves; completed_at is left out
WithNote(reminder, note, auto_completed, at) ==
    [k \in DOMAIN reminder \cup {"completion_note", "auto_completed"} |->
        CASE k = "status" -> "completed"
          [] k = "updated_at" -> isoformat(at)
          [] k = "completion_note" -> note
          [] k = "auto_completed" -> auto_completed
          [] OTHER -> reminder[k]]

\* reminder_storage.add_completion_note
add_completion_note(rems, reminder_id, note, auto_completed, at) ==
    LET i == FirstIndex(rems, reminder_id)
    IN  IF i = 0
        THEN [found |-> FALSE, reminders |-> rems]
        ELSE [found |-> TRUE,
              reminders |-> [rems EXCEPT ![i] = WithNote(@, note, auto_completed, at)]]

\* the notes a caller of the complete_reminder tool gives; "" stands for none
Notes == {"", "done on Monday"}

\* the complete_reminder tool
CompleteReminderTool(reminder_id, note) ==
    /\ LET r == IF note # ""
                THEN add_completion_note(reminders, reminder_id, note, FALSE, now)
                ELSE update_reminder_status(reminders, reminder_id, "completed", now)
       IN  /\ reminders' = r.reminders
           /\ last' = [op |-> "complete_reminder", id |-> reminder_id,
                       success |-> r.found]
    /\ UNCHANGED <<files, audit, uuids, tick, runs, journal, journal_index, conversations, agent, log, moving, appending, processor>>

\* the "## HH:MM" headings of a day's file
SectionsOf(content) ==
    Len(SelectSeq(content, LAMBDA line : line[1] = "## "))

\* reminder_storage.list_reminders(status), without its sort
list_reminders(rems, status) == SelectSeq(rems, LAMBDA r : r.status = status)

\* a timestamp string datetime.fromisoformat rejects
BadStamp == [Dt(0, 0, 0, 0) EXCEPT !.tz = "invalid"]

\* a reason the review gives for an auto-completion
DiaryReason == "Diary says the call was made"

\* what review_diary_against_reminders can answer about the pending reminders
\* it is shown: nothing, one of them fulfilled (with a reason), all of them
\* fulfilled (without), one of them mentioned; or the review raises
BridgeAnswers(pending) ==
    LET ids == [i \in 1..Len(pending) |-> pending[i].id]
        Answer(raises, auto, rel) ==
            [raises |-> raises, auto_complete |-> auto, relevant_mentions |-> rel]
    IN  {Answer(FALSE, <<>>, <<>>), Answer(TRUE, <<>>, <<>>),
         Answer(FALSE, [i \in 1..Len(ids) |-> [reminder_id |-> ids[i]]], <<>>)}
            \cup {Answer(FALSE, <<[reminder_id |-> ids[i], reason |-> DiaryReason]>>, <<>>) :
                     i \in 1..Len(ids)}
            \cup {Answer(FALSE, <<>>, <<[reminder_id |-> ids[i]]>>) : i \in 1..Len(ids)}

\* the reason given ignored
ReasonOf_Default(item) == "Confirmed by diary entry"

\* item.get("reason", "Confirmed by diary entry")
ReasonOf(item) ==
    IF "reason" \in DOMAIN item THEN item.reason ELSE "Confirmed by diary entry"

\* a value of the list that is no JSON object (a string, say): item.get
\* raises AttributeError on it
NotAnObject == [malformed |-> TRUE]

IsObject(item) == "malformed" \notin DOMAIN item

\* answers whose auto_complete list holds a value that is no object, alone
\* or after an item that names a pending reminder
MalformedAnswers(pending) ==
    {[raises |-> FALSE, auto_complete |-> <<NotAnObject>>,
      relevant_mentions |-> <<>>]}
        \cup {[raises |-> FALSE,
               auto_complete |-> <<[reminder_id |-> pending[i].id,
                                    reason |-> DiaryReason], NotAnObject>>,
               relevant_mentions |-> <<>>] : i \in 1..Len(pending)}

\* everything the review step of write_journal can be handed
ReviewOutcomes(pending) == BridgeAnswers(pending) \cup MalformedAnswers(pending)

RECURSIVE AutoComplete(_, _, _, _)
\* the loop of write_journal over bridge_result["auto_complete"] from item i
\* on; it stops where item.get raises, keeping what it has already saved
AutoComplete(rems, items, i, at) ==
    IF i > Len(items)
    THEN [reminders |-> rems, auto_completed |-> <<>>, raised |-> FALSE]
    ELSE IF ~IsObject(items[i])
    THEN [reminders |-> rems, auto_completed |-> <<>>, raised |-> TRUE]
    ELSE LET r    == add_completion_note(rems, items[i].reminder_id, ReasonOf(items[i]),
                                         TRUE, at)
             rest == AutoComplete(r.reminders, items, i + 1, at)
         IN  [reminders |-> rest.reminders,
              auto_completed |-> (IF r.found THEN <<items[i]>> ELSE <<>>)
                                     \o rest.auto_completed,
              raised |-> rest.raised]

\* the write_journal tool: the journal write, then the review of the pending
\* reminders; answer is what the review returns. An exception anywhere in the
\* review step is caught and logged ("Bridge review failed") after the
\* journal write, and the result of the journal write is returned as it is.
WriteJournal(content, timestamp, linked_entries, answer) ==
    IF timestamp = BadStamp
    THEN /\ last' = [op |-> "write_journal", success |-> FALSE]
         /\ UNCHANGED <<files, audit, uuids, tick, reminders, runs,
                        journal, journal_index, conversations, agent, log, moving, appending, processor>>
    ELSE LET w       == journal_write(journal, journal_index, content, timestamp,
                                      linked_entries, now)
             pending == list_reminders(reminders, "pending")
             done    == IF pending = <<>> \/ answer.raises
                        THEN [reminders |-> reminders, auto_completed |-> <<>>,
                              raised |-> pending # <<>>]
                        ELSE AutoComplete(reminders, answer.auto_complete, 1, now)
         IN  /\ SectionsOf(journal[w.result.journal_date]) < MaxSections
             /\ answer \in ReviewOutcomes(pending)
             /\ journal' = w.journal
             /\ journal_index' = w.journal_index
             /\ reminders' = done.reminders
             /\ last' = [op |-> "write_journal", success |-> TRUE,
                         journal_date |-> w.result.journal_date,
                         timestamp |-> w.result.timestamp,
                         linked_entries |-> linked_entries,
                         submitted |-> [i \in 1..Len(pending) |-> pending[i].id],
                         review_failed |-> done.raised,
                         auto_completed |-> IF done.raised THEN <<>>
                                            ELSE done.auto_completed,
                         relevant |-> IF pending = <<>> \/ done.raised THEN <<>>
                                      ELSE answer.relevant_mentions]
             /\ UNCHANGED <<files, audit, uuids, tick, runs, conversations, agent, log, moving, appending, processor>>

----------------------------------------------------------------------------
(* The life of a reminder: every operation that writes a status, one at a  *)
(* time.                                                                    *)

\* one repeating reminder is enough to meet every status
LifecycleRequests == {q \in Requests : q.repeat = "weekly"}

DiaryTexts == {"Called the dentist today"}

LifecycleNext ==
    \/ Tick
    \/ \E q \in LifecycleRequests : CreateReminder(q.content, q.trigger_time, q.repeat)
    \/ ProcessTriggeredReminders
    \/ \E id \in ReminderIds, note \in Notes : CompleteReminderTool(id, note)
    \/ \E text \in DiaryTexts :
         \E answer \in BridgeAnswers(list_reminders(reminders, "pending")) :
            /\ journal[date_isoformat(now)] = NoFile
            /\ WriteJournal(text, Omitted, <<>>, answer)

SpecLifecycle == Init /\ [][LifecycleNext]_vars

ForwardMoves ==
    { <<"pending", "triggered">>, <<"pending", "completed">>,
      <<"triggered", "completed">> }

\* C11: over operations executed one at a time, a reminder that exists before
\* and after a step either keeps its status or moves pending -> triggered,
\* pending -> completed or triggered -> completed; so a completed reminder
\* stays completed.
C11_StatusMovesForward ==
    [][reminders' # reminders =>
       \A i \in 1..Len(reminders), j \in 1..Len(reminders') :
          reminders[i].id = reminders'[j].id =>
              \/ reminders'[j].status = reminders[i].status
              \/ <<reminders[i].status, reminders'[j].status>> \in ForwardMoves]_vars

\* a reminder the diary review completed at the first instant is completed
\* again, by the tool, at the second instant (nothing was written that day)
C11_Witness ==
    /\ tick = 2
    /\ journal[date_isoformat(now)] = NoFile
    /\ last.op = "complete_reminder"
    /\ last.success
    /\ \E i \in 1..Len(reminders) :
          /\ reminders[i].id = last.id
          /\ reminders[i].status = "completed"
          /\ reminders[i].updated_at = isoformat(now)
          /\ "auto_completed" \in DOMAIN reminders[i]
          /\ reminders[i].auto_completed

----------------------------------------------------------------------------
(* The link_entries tool: the journal side (add_linked_entry_to_journal),  *)
(* then the entry side (add_journal_ref_to_entry).                          *)

\* links written into one day's header
MaxLinks == 2

\* a journal_date string date.fromisoformat rejects
BadDate == "yesterday"

LinkDates == JournalDates \cup {BadDate}

LinkTypes == {"mentions"}

\* the entry with the reference appended to its journal_refs
WithJournalRef(entry, journal_date, link_type) ==
    LET ref  == [journal_date |-> journal_date, link_type |-> link_type]
        refs == IF "journal_refs" \in DOMAIN entry THEN entry.journal_refs ELSE <<>>
    IN  [k \in DOMAIN entry \cup {"journal_refs"} |->
            IF k = "journal_refs" THEN Append(refs, ref) ELSE entry[k]]

\* storage.add_journal_ref_to_entry: the entry with this id, wherever it is
\* stored, gets {journal_date, link_type}; false when no entry has the id
add_journal_ref_to_entry(fs, entry_id, journal_date, link_type) ==
    LET hit == get_entry_by_id(fs, entry_id)
    IN  IF ~hit.found
        THEN [ok |-> FALSE, files |-> fs]
        ELSE [ok |-> TRUE,
              files |-> [fs EXCEPT ![hit.category][FirstIndex(fs[hit.category], entry_id)] =
                            WithJournalRef(@, journal_date, link_type)]]

JournalSideError == "Journal entry not found or failed to update"

EntrySideError == "Knowledge entry not found or failed to update"

DateFormatError == "Invalid journal_date format. Use YYYY-MM-DD"

Failure(error) == [success |-> FALSE, error |-> error]

\* the tool answering every failure after the date check with one message
link_entries_OneError(docs, fs, journal_date, entry_id, link_type) ==
    LET j == add_linked_entry_to_journal(docs, journal_date, ToString(entry_id))
        e == add_journal_ref_to_entry(fs, entry_id, journal_date, link_type)
    IN  IF journal_date = BadDate
        THEN [journal |-> docs, files |-> fs, result |-> Failure(DateFormatError)]
        ELSE IF ~j.ok
        THEN [journal |-> docs, files |-> fs, result |-> Failure(JournalSideError)]
        ELSE IF ~e.ok
        THEN [journal |-> j.journal, files |-> fs, result |-> Failure(JournalSideError)]
        ELSE [journal |-> j.journal, files |-> e.files, result |-> [success |-> TRUE, journal_date |-> journal_date,
                           entry_id |-> entry_id, link_type |-> link_type]]

\* the entry side attempted first
link_entries_EntryFirst(docs, fs, journal_date, entry_id, link_type) ==
    LET j == add_linked_entry_to_journal(docs, journal_date, ToString(entry_id))
        e == add_journal_ref_to_entry(fs, entry_id, journal_date, link_type)
    IN  IF journal_date = BadDate
        THEN [journal |-> docs, files |-> fs, result |-> Failure(DateFormatError)]
        ELSE IF ~e.ok
        THEN [journal |-> docs, files |-> fs, result |-> Failure(EntrySideError)]
        ELSE IF ~j.ok
        THEN [journal |-> docs, files |-> e.files, result |-> Failure(JournalSideError)]
        ELSE [journal |-> j.journal, files |-> e.files, result |-> [success |-> TRUE, journal_date |-> journal_date,
                           entry_id |-> entry_id, link_type |-> link_type]]

\* agent_tools.link_entries; the ids of the journal are strings
link_entries(docs, fs, journal_date, entry_id, link_type) ==
    LET j == add_linked_entry_to_journal(docs, journal_date, ToString(entry_id))
        e == add_journal_ref_to_entry(fs, entry_id, journal_date, link_type)
    IN  IF journal_date = BadDate
        THEN [journal |-> docs, files |-> fs, result |-> Failure(DateFormatError)]
        ELSE IF ~j.ok
        THEN [journal |-> docs, files |-> fs, result |-> Failure(JournalSideError)]
        ELSE IF ~e.ok
        THEN [journal |-> j.journal, files |-> fs, result |-> Failure(EntrySideError)]
        ELSE [journal |-> j.journal, files |-> e.files, result |-> [success |-> TRUE, journal_date |-> journal_date,
                           entry_id |-> entry_id, link_type |-> link_type]]

\* the ids a day's header lists, as read_journal reads them
LinkedEntries(docs, journal_date) == read_journal(docs, journal_date).linked_entries

LinkEntries(journal_date, entry_id, link_type) ==
    /\ journal_date # BadDate => Len(LinkedEntries(journal, journal_date)) < MaxLinks
    /\ LET r == link_entries(journal, files, journal_date, entry_id, link_type)
       IN  /\ journal' = r.journal
           /\ files' = r.files
           /\ last' = [op |-> "link_entries", journal_date |-> journal_date,
                       entry_id |-> entry_id, link_type |-> link_type,
                       result |-> r.result]
    /\ UNCHANGED <<audit, uuids, tick, reminders, runs, journal_index, conversations, agent, log, moving, appending, processor>>

----------------------------------------------------------------------------
(* The journal and its links, driven one tool call at a time *)

\* the timestamp argument of the write_journal tool: left out, given, malformed
JournalTimestamps == {Omitted, BadStamp} \cup JournalStamps

\* the linked_entries argument of the write_journal tool
LinkedLists == {<<>>, <<"1">>}

JournalNext ==
    \/ Tick
    \/ \E text \in DiaryTexts, ts \in JournalTimestamps, linked \in LinkedLists :
         \E answer \in BridgeAnswers(list_reminders(reminders, "pending")) :
            WriteJournal(text, ts, linked, answer)

SpecJournal == Init /\ [][JournalNext]_vars

\* entries, a day's document, and links between them
LinksNext ==
    \/ \E m \in Messages : AgentCreateEntry("people", m, CONFIDENCE_THRESHOLD)
    \/ \E text \in DiaryTexts, linked \in LinkedLists :
         \E answer \in BridgeAnswers(list_reminders(reminders, "pending")) :
            WriteJournal(text, Omitted, linked, answer)
    \/ \E d \in LinkDates, id \in EntryIds, t \in LinkTypes : LinkEntries(d, id, t)

SpecLinks == Init /\ [][LinksNext]_vars

IsPrefix(s, t) == Len(s) <= Len(t) /\ SubSeq(t, 1, Len(s)) = s

\* the "## HH:MM" headings of a file, in file order
Headings(content) ==
    LET hs == SelectSeq(content, LAMBDA line : line[1] = "## ")
    IN  [i \in 1..Len(hs) |-> hs[i][2]]

\* HH:MM of a timestamp string
ClockOf(stamp) == Pad2(stamp[4]) \o ":00"

\* C12: a write_journal call on a date whose document exists keeps every line
\* the document had and appends one section to it: the headings of the day are
\* the earlier headings followed by the time of this call, the text comes
\* right after it, and no other day's document changes.
C12_SameDayWritesAppend ==
    [][(/\ last'.op = "write_journal"
        /\ journal' # journal
        /\ journal[last'.journal_date] # NoFile) =>
          LET d == last'.journal_date
          IN  /\ IsPrefix(journal[d], journal'[d])
              /\ Headings(journal'[d]) =
                     Append(Headings(journal[d]), ClockOf(last'.timestamp))
              /\ Len(journal'[d]) = Len(journal[d]) + 4
              /\ journal'[d][Len(journal[d]) + 3][1] \in DiaryTexts
              /\ \A o \in JournalDates \ {d} : journal'[o] = journal[o]]_vars

\* the first write of the day at 08:00, the second with the timestamp 21:00
C12_Witness ==
    /\ last.op = "write_journal"
    /\ last.success
    /\ last.journal_date = "2023-02-01"
    /\ Headings(journal["2023-02-01"]) = <<"08:00", "21:00">>
    /\ Len(SelectSeq(journal["2023-02-01"], LAMBDA line : line = Fence)) = 2

\* an entry's journal_refs, none when it has no such key
JournalRefs(entry) ==
    IF "journal_refs" \in DOMAIN entry THEN entry.journal_refs ELSE <<>>

\* some stored entry with this id holds the reference
EntryHoldsRef(entry_id, journal_date, link_type) ==
    \E c \in Range(StorageKeys) : \E i \in 1..Len(files[c]) :
        /\ files[c][i].id = entry_id
        /\ \E k \in 1..Len(JournalRefs(files[c][i])) :
              JournalRefs(files[c][i])[k] =
                  [journal_date |-> journal_date, link_type |-> link_type]

\* the day's header, as read back, lists the id
DayListsEntry(journal_date, entry_id) ==
    \E k \in 1..Len(LinkedEntries(journal, journal_date)) :
        LinkedEntries(journal, journal_date)[k] = ToString(entry_id)

\* C13: when link_entries has returned success, the day's linked_entries
\* contains entry_id and the entry's journal_refs contains
\* {journal_date, link_type}.
C13_SuccessMeansBothSides ==
    (last.op = "link_entries" /\ last.result.success) =>
        /\ DayListsEntry(last.journal_date, last.entry_id)
        /\ EntryHoldsRef(last.entry_id, last.journal_date, last.link_type)

\* a successful link into a header that already listed an id
C13_Witness ==
    /\ last.op = "link_entries"
    /\ last.result.success
    /\ Len(LinkedEntries(journal, last.journal_date)) = 2
    /\ DayListsEntry(last.journal_date, last.entry_id)
    /\ EntryHoldsRef(last.entry_id, last.journal_date, last.link_type)

\* C14: when link_entries has patched the day's header and the entry side then
\* fails, the result is a failure that differs from the result of a journal-side
\* failure and of a rejected date: it carries the entry-side message.
C14_EntryHalfFailureIsDistinct ==
    [][(/\ last'.op = "link_entries"
        /\ journal' # journal
        /\ files' = files) =>
          /\ ~last'.result.success
          /\ last'.result # Failure(JournalSideError)
          /\ last'.result # Failure(DateFormatError)
          /\ last'.result.error = EntrySideError]_vars

\* the header lists an id no entry has, and the call said so
C14_Witness ==
    /\ last.op = "link_entries"
    /\ ~last.result.success
    /\ last.result.error = EntrySideError
    /\ DayListsEntry(last.journal_date, last.entry_id)
    /\ ~get_entry_by_id(files, last.entry_id).found

----------------------------------------------------------------------------
(* conversation_state.py: the stored turns of each chat.  A turn's content  *)
(* is a sequence of blocks; content that is a plain string is the one       *)
(* block of type "str".                                                     *)

MAX_HISTORY_PER_CHAT == 20

StrContent(text) == <<[type |-> "str", text |-> text]>>

\* isinstance(content, list)
IsList(content) == content = <<>> \/ content[1].type # "str"

HasBlock(content, type) ==
    IsList(content) /\ \E k \in 1..Len(content) : content[k].type = type

is_tool_result(turn) == turn.role = "user" /\ HasBlock(turn.content, "tool_result")

is_tool_use(turn) == turn.role = "assistant" /\ HasBlock(turn.content, "tool_use")

\* history[-limit:] if limit else history
LastTurns(history, limit) ==
    LET n     == Len(history)
        start == IF limit = 0 THEN 0
                 ELSE IF limit > 0 THEN (IF n - limit > 0 THEN n - limit ELSE 0)
                 ELSE (IF -limit < n THEN -limit ELSE n)
    IN  SubSeq(history, start + 1, n)

\* the window returned as it was cut
Strip_Nothing(recent) == recent

RECURSIVE Strip(_)
\* the while loop of get_conversation_history
Strip(recent) ==
    IF recent = <<>> THEN recent
    ELSE IF is_tool_result(recent[1]) \/ is_tool_use(recent[1])
         THEN Strip(Tail(recent))
         ELSE recent

get_conversation_history(convs, chat_id, limit) ==
    LET chat_key == ToString(chat_id)
    IN  IF chat_key \notin DOMAIN convs THEN <<>>
        ELSE Strip(LastTurns(convs[chat_key].messages, limit))

\* the trim that keeps the oldest turns
Trim_KeepOldest(messages) ==
    IF Len(messages) > MAX_HISTORY_PER_CHAT
    THEN SubSeq(messages, 1, MAX_HISTORY_PER_CHAT)
    ELSE messages

\* messages[-MAX_HISTORY_PER_CHAT:] when the list is too long
Trim(messages) ==
    IF Len(messages) > MAX_HISTORY_PER_CHAT
    THEN SubSeq(messages, Len(messages) - MAX_HISTORY_PER_CHAT + 1, Len(messages))
    ELSE messages

Turn(role, content, at) == [role |-> role, content |-> content, timestamp |-> isoformat(at)]

add_message(convs, chat_id, role, content, at) ==
    LET chat_key == ToString(chat_id)
        known    == IF chat_key \in DOMAIN convs THEN convs
                    ELSE (chat_key :> [started_at |-> isoformat(at), messages |-> <<>>])
                             @@ convs
    IN  [known EXCEPT ![chat_key].messages = Trim(Append(@, Turn(role, content, at)))]

\* the stored turns of a chat, none when the chat is unknown
StoredTurns(convs, chat_id) ==
    IF ToString(chat_id) \in DOMAIN convs THEN convs[ToString(chat_id)].messages
    ELSE <<>>

----------------------------------------------------------------------------
(* agent_tools.execute_tool: the dispatcher, for the tools the model below  *)
(* asks for.  tool_input is a record of the arguments given.                *)

NoArguments == [k \in {} |-> 0]

\* the parameters a handler called as handler(**tool_input) requires
Required(tool_name) ==
    CASE tool_name = "get_entry" -> {"entry_id"}
      [] tool_name = "move_entry" -> {"entry_id", "from_category", "to_category"}
      [] tool_name = "list_entries" -> {"category"}
      [] OTHER -> {}

\* the parameters it has
Accepted(tool_name) ==
    CASE tool_name = "list_entries" -> {"category", "limit"}
      [] OTHER -> Required(tool_name)

\* handler(**tool_input) raising TypeError: an argument missing or not accepted
BindRaises(tool_name, tool_input) ==
    \/ ~(Required(tool_name) \subseteq DOMAIN tool_input)
    \/ ~(DOMAIN tool_input \subseteq Accepted(tool_name))

Raised(error) == [raised |-> TRUE, error |-> error]

Returned(result, rems, fs, events) ==
    [raised |-> FALSE, result |-> result, reminders |-> rems, files |-> fs,
     audit |-> events]

execute_tool(tool_name, tool_input, rems, fs, events, at) ==
    CASE tool_name = "get_entry" ->
            IF BindRaises(tool_name, tool_input)
            THEN Raised("get_entry() missing 1 required positional argument")
            ELSE LET hit == get_entry_by_id(fs, tool_input.entry_id)
                 IN  Returned(IF hit.found
                              THEN [success |-> TRUE, category |-> hit.category]
                              ELSE Failure("Entry not found"), rems, fs, events)
      [] tool_name = "move_entry" ->
            IF BindRaises(tool_name, tool_input)
            THEN Raised("move_entry() missing required positional arguments")
            ELSE LET r == storage_move_entry(fs, tool_input.entry_id,
                                             tool_input.from_category,
                                             tool_input.to_category, <<>>, at)
                 IN  IF r.entry # NoEntry
                     THEN Returned([success |-> TRUE, category |-> tool_input.to_category],
                                   rems, r.files,
                                   log_audit(events, "corrected", tool_input.entry_id,
                                             tool_input.to_category))
                     ELSE Returned(Failure("Failed to move entry"),
                                   rems, fs, events)
      [] tool_name = "list_entries" ->
            IF BindRaises(tool_name, tool_input)
            THEN Raised("list_entries() missing 1 required positional argument")
            ELSE LET entries == IF HasStorageFile(tool_input.category)
                                THEN fs[tool_input.category] ELSE <<>>
                     \* limit None or 0 lists everything; limits are not negative here
                     limit   == IF "limit" \in DOMAIN tool_input
                                THEN tool_input.limit ELSE 0
                 IN  Returned([success |-> TRUE, category |-> tool_input.category,
                               count |-> IF limit # 0 THEN Min(limit, Len(entries))
                                         ELSE Len(entries)],
                              rems, fs, events)
      [] tool_name = "list_reminders" ->
            LET status == IF "status" \in DOMAIN tool_input
                          THEN tool_input.status ELSE None
                listed == IF status = None THEN rems ELSE list_reminders(rems, status)
            IN  Returned([success |-> TRUE, count |-> Len(listed)], rems, fs, events)
      [] tool_name = "complete_reminder" ->
            IF "reminder_id" \notin DOMAIN tool_input
            THEN Raised("'reminder_id'")
            ELSE LET note == IF "note" \in DOMAIN tool_input THEN tool_input.note ELSE ""
                     r == IF note # ""
                          THEN add_completion_note(rems, tool_input.reminder_id, note,
                                                   FALSE, at)
                          ELSE update_reminder_status(rems, tool_input.reminder_id,
                                                      "completed", at)
                 IN  Returned(IF r.found
                              THEN [success |-> TRUE, reminder_id |-> tool_input.reminder_id]
                              ELSE Failure("Reminder not found"), r.reminders, fs, events)
      [] OTHER -> Returned(Failure("Unknown tool: " \o tool_name), rems, fs, events)

----------------------------------------------------------------------------
(* bot-listener.py: process_message_with_agent, one step at a time.  The    *)
(* model's responses are the environment's choice.                          *)

Text(text) == [type |-> "text", text |-> text]

\* a tool_use block; the API gives it its id
Use(name, input) == [type |-> "tool_use", id |-> 0, name |-> name, input |-> input]

Response(stop_reason, content) == [stop_reason |-> stop_reason, content |-> content]

\* the tool calls the model asks for: one that succeeds, one whose handler
\* reports not-found, a name that is not registered, and two that leave out a
\* required argument
SucceedingCall == Use("list_reminders", NoArguments)

NotFoundCall == Use("get_entry", [entry_id |-> 1])

UnknownCall == Use("send_email", [to |-> "felipe"])

KeylessCall == Use("complete_reminder", NoArguments)

ArgumentlessCall == Use("move_entry", [entry_id |-> 1])

\* final responses: a text, two texts, no block at all, and a response cut by
\* max_tokens after a tool_use block
PlainResponse == Response("end_turn", <<Text("Listo.")>>)

FinalResponses ==
    { PlainResponse,
      Response("end_turn", <<Text("Encontre esto:"), Text("Nada en inbox.")>>),
      Response("end_turn", <<>>),
      Response("max_tokens", <<Text("Voy a buscar."), NotFoundCall>>) }

ToolResponses ==
    { Response("tool_use", <<c>>) :
          c \in {SucceedingCall, NotFoundCall, UnknownCall, KeylessCall, ArgumentlessCall} }
        \cup { Response("tool_use", <<Text("Un momento."), NotFoundCall, SucceedingCall>>),
               Response("tool_use", <<KeylessCall, SucceedingCall>>) }

\* [block for block in response.content if block.type == "tool_use"]
ToolUses(content) == SelectSeq(content, LAMBDA block : block.type = "tool_use")

\* the content with the ids the API issues: issued + 1, issued + 2, ...
WithIds(content, issued) ==
    [k \in 1..Len(content) |->
        IF content[k].type = "tool_use"
        THEN [content[k] EXCEPT !.id = issued + Len(ToolUses(SubSeq(content, 1, k)))]
        ELSE content[k]]

\* the first text block alone
JoinLines_FirstOnly(texts) == IF texts = <<>> THEN "" ELSE texts[1]

RECURSIVE JoinLines(_)
\* "\n".join(texts)
JoinLines(texts) ==
    IF texts = <<>> THEN ""
    ELSE IF Len(texts) = 1 THEN texts[1]
    ELSE texts[1] \o "\n" \o JoinLines(Tail(texts))

\* [block.text for block in response.content if hasattr(block, "text")]
TextBlocks(content) ==
    LET blocks == SelectSeq(content, LAMBDA block : block.type = "text")
    IN  [k \in 1..Len(blocks) |-> blocks[k].text]

Apology == "Lo siento, no pude procesar eso."

\* assistant_response of a final response
AssistantResponse(content) ==
    IF TextBlocks(content) # <<>> THEN JoinLines(TextBlocks(content)) ELSE Apology

\* {"role": msg["role"], "content": msg["content"]}
Message(role, content) == [role |-> role, content |-> content]

Logged(chat_id, role, content) ==
    [log EXCEPT ![ToString(chat_id)] = Append(@, Turn(role, content, now))]

\* the function left, by return or by the death of the process
Left(reply) ==
    [agent EXCEPT !.pc = "idle", !.messages = <<>>, !.response = NoResponse,
                  !.i = 1, !.tool_results = <<>>, !.reply = reply]

\* lines 101-108: the history window, the messages for the API, the user turn
Receive(chat_id, user_message) ==
    /\ agent.pc = "idle"
    /\ LET history  == get_conversation_history(conversations, chat_id, 10)
           messages == [k \in 1..Len(history) |->
                           Message(history[k].role, history[k].content)]
       IN  agent' = [agent EXCEPT !.pc = "calling", !.chat_id = chat_id,
                       !.messages = Append(messages,
                                           Message("user", StrContent(user_message))),
                       !.response = NoResponse, !.i = 1, !.tool_results = <<>>,
                       !.dispatched = <<>>, !.reply = "",
                       !.received = @ + 1, !.rounds = 0]
    /\ conversations' = add_message(conversations, chat_id, "user",
                                    StrContent(user_message), now)
    /\ log' = Logged(chat_id, "user", StrContent(user_message))
    /\ UNCHANGED <<files, audit, uuids, tick, reminders, last, runs, journal, journal_index, moving, appending, processor>>

\* messages.create returns: lines 117-124 and 171-177
ModelResponds(response) ==
    /\ agent.pc = "calling"
    /\ agent' = [agent EXCEPT
                    !.pc = IF response.stop_reason = "tool_use" THEN "tools" ELSE "final",
                    !.response = Response(response.stop_reason,
                                          WithIds(response.content, agent.issued)),
                    !.i = 1, !.tool_results = <<>>,
                    !.issued = @ + Len(ToolUses(response.content)),
                    !.rounds = IF response.stop_reason = "tool_use" THEN @ + 1 ELSE @,
                    !.odd = IF response = PlainResponse THEN @ ELSE @ + 1]
    /\ UNCHANGED <<files, audit, uuids, tick, reminders, last, runs, journal, journal_index, conversations, log, moving, appending, processor>>

ModelError == "Connection error."

\* the exception noted and the call made again
ModelRaises_Retry ==
    /\ agent.pc = "calling"
    /\ agent' = [agent EXCEPT !.reply = "Error: " \o ModelError]
    /\ UNCHANGED <<files, audit, uuids, tick, reminders, last, runs, journal, journal_index, conversations, log, moving, appending, processor>>

\* the exception that takes back what the message has stored so far
ModelRaises_Rollback ==
    /\ agent.pc = "calling"
    /\ agent' = [Left("Error: " \o ModelError) EXCEPT !.odd = @ + 1]
    /\ conversations' = [k \in DOMAIN conversations \ {ToString(agent.chat_id)} |->
                            conversations[k]]
    /\ UNCHANGED <<files, audit, uuids, tick, reminders, last, runs, journal, journal_index, log, moving, appending, processor>>

\* messages.create raises: the except clause of lines 193-195
ModelRaises ==
    /\ agent.pc = "calling"
    /\ agent' = [Left("Error: " \o ModelError) EXCEPT !.odd = @ + 1]
    /\ UNCHANGED <<files, audit, uuids, tick, reminders, last, runs, journal, journal_index, conversations, log, moving, appending, processor>>

\* one pass of the for loop of lines 135-155; an exception of execute_tool
\* reaches the except clause of lines 193-195
ExecuteTool ==
    /\ agent.pc = "tools"
    /\ agent.i <= Len(ToolUses(agent.response.content))
    /\ LET tool_use == ToolUses(agent.response.content)[agent.i]
           r == execute_tool(tool_use.name, tool_use.input, reminders, files, audit, now)
           ran == [agent EXCEPT !.dispatched = Append(@, tool_use.id)]
       IN  IF r.raised
           THEN /\ agent' = [ran EXCEPT !.pc = "idle", !.messages = <<>>,
                                        !.response = NoResponse, !.i = 1,
                                        !.tool_results = <<>>,
                                        !.reply = "Error: " \o r.error]
                /\ UNCHANGED <<reminders, files, audit>>
           ELSE /\ agent' = [ran EXCEPT !.i = @ + 1,
                               !.tool_results =
                                   Append(@, [type |-> "tool_result",
                                              tool_use_id |-> tool_use.id,
                                              content |-> r.result])]
                /\ reminders' = r.reminders
                /\ files' = r.files
                /\ audit' = r.audit
    /\ UNCHANGED <<uuids, tick, last, runs, journal, journal_index, conversations, log, moving, appending, processor>>

\* lines 158-167: both turns go to messages, the assistant turn to the history
AppendAssistant ==
    /\ agent.pc = "tools"
    /\ agent.i > Len(ToolUses(agent.response.content))
    /\ agent' = [agent EXCEPT !.pc = "between",
                    !.messages = @ \o << Message("assistant", agent.response.content),
                                         Message("user", agent.tool_results) >>]
    /\ conversations' = add_message(conversations, agent.chat_id, "assistant",
                                    agent.response.content, now)
    /\ log' = Logged(agent.chat_id, "assistant", agent.response.content)
    /\ UNCHANGED <<files, audit, uuids, tick, reminders, last, runs, journal, journal_index, moving, appending, processor>>

\* the tool results kept out of the history
AppendResults_Unstored ==
    /\ agent.pc = "between"
    /\ agent' = [agent EXCEPT !.pc = "calling"]
    /\ UNCHANGED <<files, audit, uuids, tick, reminders, last, runs, journal, journal_index, conversations, log, moving, appending, processor>>

\* line 168: the tool results go to the history
AppendResults ==
    /\ agent.pc = "between"
    /\ agent' = [agent EXCEPT !.pc = "calling"]
    /\ conversations' = add_message(conversations, agent.chat_id, "user",
                                    agent.tool_results, now)
    /\ log' = Logged(agent.chat_id, "user", agent.tool_results)
    /\ UNCHANGED <<files, audit, uuids, tick, reminders, last, runs, journal, journal_index, moving, appending, processor>>

\* the process dies between line 167 and line 168
Interrupted ==
    /\ agent.pc = "between"
    /\ agent' = [Left("") EXCEPT !.odd = @ + 1]
    /\ UNCHANGED <<files, audit, uuids, tick, reminders, last, runs, journal, journal_index, conversations, log, moving, appending, processor>>

\* lines 180-191: the reply, the final assistant turn
Finish ==
    /\ agent.pc = "final"
    /\ agent' = [Left(AssistantResponse(agent.response.content)) EXCEPT
                    !.response = agent.response]
    /\ conversations' = add_message(conversations, agent.chat_id, "assistant",
                                    agent.response.content, now)
    /\ log' = Logged(agent.chat_id, "assistant", agent.response.content)
    /\ UNCHANGED <<files, audit, uuids, tick, reminders, last, runs, journal, journal_index, moving, appending, processor>>

----------------------------------------------------------------------------
(* The agent loop with every kind of response. *)

MaxMessages == 1

MaxRounds == 2

UserMessages == {"que tengo pendiente?"}

AgentNext ==
    \/ \E chat_id \in Chats, user_message \in UserMessages :
           /\ agent.received < MaxMessages
           /\ Receive(chat_id, user_message)
    \/ \E response \in FinalResponses : ModelResponds(response)
    \/ \E response \in ToolResponses :
           /\ agent.rounds < MaxRounds
           /\ ModelResponds(response)
    \/ ModelRaises
    \/ ExecuteTool
    \/ AppendAssistant
    \/ AppendResults
    \/ Interrupted
    \/ Finish

SpecAgent == Init /\ [][AgentNext]_vars

----------------------------------------------------------------------------
(* Long conversations: plain exchanges, and a few events of another kind.  *)

MaxTurns == 22

MaxOdd == 2

ConversationNext ==
    \/ \E chat_id \in Chats, user_message \in UserMessages :
           /\ Len(log[ToString(chat_id)]) < MaxTurns
           /\ Receive(chat_id, user_message)
    \/ ModelResponds(PlainResponse)
    \/ \E response \in { Response("tool_use", <<SucceedingCall>>),
                         Response("max_tokens", <<Text("Voy a buscar."), NotFoundCall>>) } :
           /\ agent.odd < MaxOdd
           /\ ModelResponds(response)
    \/ agent.odd < MaxOdd /\ ModelRaises
    \/ ExecuteTool
    \/ AppendAssistant
    \/ AppendResults
    \/ agent.odd < MaxOdd /\ Interrupted
    \/ Finish

SpecConversation == Init /\ [][ConversationNext]_vars

----------------------------------------------------------------------------
(* Claims about the conversation history *)

\* the limits asked for: none, negative, short, the agent's 10, the cap, beyond
Limits == {-1, 0, 1, 2, 3, 10, 20, 21}

\* C15: whatever is stored and whatever the limit, the window returned by
\* get_conversation_history does not begin with a user turn that holds a
\* tool_result block.
C15_WindowNeverBeginsWithToolResult ==
    \A chat_id \in Chats, limit \in Limits :
        LET window == get_conversation_history(conversations, chat_id, limit)
        IN  window # <<>> => ~is_tool_result(window[1])

\* the cap is reached, the last 10 stored turns begin with a tool result whose
\* request was cut off, and the window returned for 10 is what follows it
C15_Witness ==
    \E chat_id \in Chats :
        LET stored == StoredTurns(conversations, chat_id)
            cut    == LastTurns(stored, 10)
            window == get_conversation_history(conversations, chat_id, 10)
        IN  /\ Len(stored) = MAX_HISTORY_PER_CHAT
            /\ Len(log[ToString(chat_id)]) > MAX_HISTORY_PER_CHAT
            /\ is_tool_result(cut[1])
            /\ window = Tail(cut)
            /\ window # <<>>

\* C16: once process_message_with_agent has returned or died, whatever the
\* limit, the window returned by get_conversation_history does not end with
\* an assistant turn that holds a tool_use block (no tool-result turn follows
\* the last turn).
C16_WindowNeverEndsWithToolUse ==
    agent.pc = "idle" =>
        \A chat_id \in Chats, limit \in Limits :
            LET window == get_conversation_history(conversations, chat_id, limit)
            IN  window # <<>> => ~is_tool_use(window[Len(window)])

\* the last turns of a list, all of it when it is shorter
IsSuffix(part, whole) ==
    /\ Len(part) <= Len(whole)
    /\ part = SubSeq(whole, Len(whole) - Len(part) + 1, Len(whole))

\* C17: a conversation's stored list holds at most MAX_HISTORY_PER_CHAT turns
\* and is exactly the most recent turns appended, in append order; with a
\* limit above 0, get_conversation_history returns at most limit turns, a run
\* of turns at the end of the stored list, in order.
C17_StoredIsMostRecentTurns ==
    \A chat_id \in Chats :
        LET stored   == StoredTurns(conversations, chat_id)
            appended == log[ToString(chat_id)]
        IN  /\ Len(stored) <= MAX_HISTORY_PER_CHAT
            /\ IsSuffix(stored, appended)
            /\ Len(appended) <= MAX_HISTORY_PER_CHAT => stored = appended
            /\ Len(appended) > MAX_HISTORY_PER_CHAT => Len(stored) = MAX_HISTORY_PER_CHAT
            /\ \A limit \in Limits :
                   limit > 0 =>
                       LET window == get_conversation_history(conversations, chat_id, limit)
                       IN  Len(window) <= limit /\ IsSuffix(window, stored)

\* more turns were appended than the cap keeps, and the window of 10 is full
C17_Witness ==
    \E chat_id \in Chats :
        /\ Len(log[ToString(chat_id)]) > MAX_HISTORY_PER_CHAT
        /\ Len(StoredTurns(conversations, chat_id)) = MAX_HISTORY_PER_CHAT
        /\ Len(get_conversation_history(conversations, chat_id, 10)) = 10

----------------------------------------------------------------------------
(* Claims about the agent loop *)

\* the ids of a sequence of blocks, under the field that carries them
IdsOf(blocks, field) == [k \in 1..Len(blocks) |-> blocks[k][field]]

NoDuplicates(ids) ==
    \A j, k \in 1..Len(ids) : ids[j] = ids[k] => j = k

\* the step that passes a tool_use block to execute_tool
Dispatches == agent.pc = "tools" /\ agent'.dispatched # agent.dispatched

\* C18: when the for loop over a response's tool_use blocks is left, every
\* block has been passed to execute_tool once, in response order, the
\* tool-results turn holds one tool_result per block with that block's id,
\* and no id has been dispatched twice.
C18_EachCallDispatchedOnce ==
    [][(agent.pc = "tools" /\ agent'.pc # "tools") =>
          LET ids == IdsOf(ToolUses(agent.response.content), "id")
          IN  /\ agent'.pc = "between"
              /\ IsSuffix(ids, agent'.dispatched)
              /\ IdsOf(agent'.tool_results, "tool_use_id") = ids
              /\ agent'.messages[Len(agent'.messages)] = Message("user", agent'.tool_results)
              /\ NoDuplicates(agent'.dispatched)]_vars

\* text blocks joined with newlines, built from the last block backwards
RECURSIVE Joined(_)
Joined(texts) ==
    IF texts = <<>> THEN ""
    ELSE IF Len(texts) = 1 THEN texts[1]
    ELSE Joined(SubSeq(texts, 1, Len(texts) - 1)) \o "\n" \o texts[Len(texts)]

\* the step taken with a response whose stop reason is not tool_use
Finishes == agent.pc = "final" /\ agent' # agent

\* exactly one assistant turn with the response's content is appended
OneFinalTurn ==
    \E chat_id \in Chats :
        LET key == ToString(chat_id)
        IN  /\ chat_id = agent.chat_id
            /\ Len(log'[key]) = Len(log[key]) + 1
            /\ SubSeq(log'[key], 1, Len(log[key])) = log[key]
            /\ log'[key][Len(log'[key])].role = "assistant"
            /\ log'[key][Len(log'[key])].content = agent.response.content
            /\ StoredTurns(conversations', chat_id)[Len(StoredTurns(conversations', chat_id))]
                   = log'[key][Len(log'[key])]
            /\ \A other \in Chats \ {chat_id} : log'[ToString(other)] = log[ToString(other)]

\* C19 as stated: with a response whose stop reason is not tool_use the
\* function returns, its reply is the response's text blocks joined, and one
\* final assistant turn is appended.
C19_ReplyIsJoinedText ==
    [][Finishes =>
          /\ agent'.pc = "idle"
          /\ agent'.reply = Joined(TextBlocks(agent.response.content))
          /\ OneFinalTurn]_vars

\* C19 amended: the reply is the text blocks joined with newlines, or the
\* fixed apology when the response has no text block.
C19_ReplyIsJoinedTextOrApology ==
    [][Finishes =>
          /\ agent'.pc = "idle"
          /\ agent'.reply = IF TextBlocks(agent.response.content) = <<>>
                            THEN "Lo siento, no pude procesar eso."
                            ELSE Joined(TextBlocks(agent.response.content))
          /\ OneFinalTurn]_vars

\* after a tool round the model answered with two text blocks and the
\* function returned them joined
C19_Witness ==
    /\ agent.pc = "idle"
    /\ agent.rounds > 0
    /\ agent.response.stop_reason = "end_turn"
    /\ Len(TextBlocks(agent.response.content)) = 2
    /\ agent.reply = "Encontre esto:\nNada en inbox."
    /\ is_tool_result(log[ToString(agent.chat_id)][Len(log[ToString(agent.chat_id)]) - 1])

\* a call that fails: anything but the listing of reminders
Failing(tool_use) == tool_use.name # SucceedingCall.name

\* C20: a failing tool call does not end the loop: the step that dispatches
\* it stays in the loop and appends a tool_result with the call's id that
\* carries the failure.
C20_FailingToolNeverEndsLoop ==
    [][Dispatches =>
          LET tool_use == ToolUses(agent.response.content)[agent.i]
          IN  Failing(tool_use) =>
                  /\ agent'.pc = "tools"
                  /\ Len(agent'.tool_results) = Len(agent.tool_results) + 1
                  /\ agent'.tool_results[Len(agent'.tool_results)].tool_use_id = tool_use.id
                  /\ agent'.tool_results[Len(agent'.tool_results)].content.success = FALSE]_vars

----------------------------------------------------------------------------
(* execute_tool called directly, with every tool name and input below. *)

ToolNames ==
    {"list_entries", "get_entry", "move_entry", "list_reminders",
     "complete_reminder", "send_email"}

\* inputs that fit some tool, an empty input, and one with a field no handler has
ToolInputs ==
    { NoArguments,
      [category |-> "people"],
      [category |-> "people", limit |-> 1],
      [entry_id |-> 1],
      [entry_id |-> 1, from_category |-> "people", to_category |-> "ideas"],
      [status |-> "pending"],
      [reminder_id |-> 1],
      [entry_id |-> 1, colour |-> "red"] }

\* a caller of execute_tool; last tells what it received
CallTool(tool_name, tool_input) ==
    /\ Len(audit) < MaxAudit
    /\ LET r == execute_tool(tool_name, tool_input, reminders, files, audit, now)
       IN  IF r.raised
           THEN /\ last' = [op |-> "execute_tool", tool_name |-> tool_name,
                            tool_input |-> tool_input, raised |-> TRUE,
                            error |-> r.error]
                /\ UNCHANGED <<reminders, files, audit>>
           ELSE /\ last' = [op |-> "execute_tool", tool_name |-> tool_name,
                            tool_input |-> tool_input, raised |-> FALSE,
                            result |-> r.result]
                /\ reminders' = r.reminders
                /\ files' = r.files
                /\ audit' = r.audit
    /\ UNCHANGED <<uuids, tick, runs, journal, journal_index, conversations, agent, log, moving, appending, processor>>

ToolsNext ==
    \/ \E m \in Messages : AgentCreateEntry("people", m, CONFIDENCE_THRESHOLD)
    \/ \E q \in LifecycleRequests : CreateReminder(q.content, q.trigger_time, q.repeat)
    \/ \E tool_name \in ToolNames, tool_input \in ToolInputs :
           CallTool(tool_name, tool_input)

SpecTools == Init /\ [][ToolsNext]_vars

\* C21: whatever the tool name and the input, execute_tool returns an envelope
\* with a boolean success, and an error string when success is false; it does
\* not raise.
C21_ExecuteToolNeverRaises ==
    last.op = "execute_tool" =>
        /\ ~last.raised
        /\ last.result.success \in BOOLEAN
        /\ ~last.result.success => "error" \in DOMAIN last.result

\* the step of a model call that gives no response
ModelCallFails ==
    agent.pc = "calling" /\ agent' # agent /\ agent'.pc \notin {"tools", "final"}

----------------------------------------------------------------------------
(* The two flows that create entries, compared *)

\* the collection a flow's request ends in, None when storage refuses it
Resolved(flow, category, confidence) ==
    LET cat == IF flow = "agent" THEN AgentCategory(category, confidence)
               ELSE IntentCategory(category, confidence)
    IN  IF HasStorageFile(cat) THEN cat ELSE None

OtherFlow(flow) == IF flow = "agent" THEN "intent" ELSE "agent"

\* C23: whatever category and confidence are requested, the entry a flow
\* creates is stored, and stored in the category the other flow resolves the
\* same request to.
C23_FlowsStoreInSameCategory ==
    last.op = "create_entry" =>
        /\ last.success
        /\ last.category = Resolved(OtherFlow(last.flow), last.requested, last.confidence)
        /\ \E k \in 1..Len(files[last.category]) :
               files[last.category][k].id = last.entry.id

----------------------------------------------------------------------------
(* storage.move_entry one write at a time, with a failure between its two  *)
(* writes.                                                                  *)

\* lines 100-130: both collections loaded, the entry popped from the source
\* list, updated and appended to the destination list, nothing written yet
MoveLoad(entry_id, from_category, to_category) ==
    /\ moving.pc = "idle"
    /\ HasStorageFile(from_category) /\ HasStorageFile(to_category)
    /\ from_category # to_category
    /\ FirstIndex(files[from_category], entry_id) # 0
    /\ LET from_entries == files[from_category]
           i     == FirstIndex(from_entries, entry_id)
           entry == [from_entries[i] EXCEPT !.corrected_from = from_category,
                                            !.category = to_category,
                                            !.processed_at = isoformat(now)]
       IN  moving' = [pc |-> "save_from", from_category |-> from_category,
                      to_category |-> to_category,
                      from_entries |-> Pop(from_entries, i),
                      to_entries |-> Append(files[to_category], entry),
                      entry |-> entry]
    /\ UNCHANGED <<files, audit, uuids, tick, reminders, last, runs, journal, journal_index, conversations, agent, log, appending, processor>>

\* line 134: _save_json(from_path, from_entries)
MoveSaveFrom ==
    /\ moving.pc = "save_from"
    /\ files' = [files EXCEPT ![moving.from_category] = moving.from_entries]
    /\ moving' = [moving EXCEPT !.pc = "save_to"]
    /\ UNCHANGED <<audit, uuids, tick, reminders, last, runs, journal, journal_index, conversations, agent, log, appending, processor>>

\* line 135: _save_json(to_path, to_entries), and the return
MoveSaveTo ==
    /\ moving.pc = "save_to"
    /\ files' = [files EXCEPT ![moving.to_category] = moving.to_entries]
    /\ moving' = NotMoving
    /\ UNCHANGED <<audit, uuids, tick, reminders, last, runs, journal, journal_index, conversations, agent, log, appending, processor>>

\* the second write raises, or the process dies before it
MoveFails ==
    /\ moving.pc = "save_to"
    /\ moving' = NotMoving
    /\ UNCHANGED <<files, audit, uuids, tick, reminders, last, runs, journal, journal_index, conversations, agent, log, appending, processor>>

MoveCategories == {"people", "ideas", "inbox"}

MoveNext ==
    \/ \E m \in Messages : AgentCreateEntry("people", m, CONFIDENCE_THRESHOLD)
    \/ \E id \in EntryIds, from_category \in MoveCategories, to_category \in MoveCategories :
           MoveLoad(id, from_category, to_category)
    \/ MoveSaveFrom
    \/ MoveSaveTo
    \/ MoveFails

SpecMove == Init /\ [][MoveNext]_vars

\* C24: the destination is written before the source, so an entry that was
\* created lies in some collection at every moment of a move, and after a
\* failure between the two writes.
C24_EntryNeverAbsent ==
    \A id \in 1..uuids : TotalCount(files, id) >= 1

----------------------------------------------------------------------------
(* process_triggered_reminders interrupted between its two writes for a    *)
(* repeating reminder.                                                      *)

\* the process dies after update_reminder_status (line 205) and before
\* create_reminder (line 240)
RunDies(p) ==
    /\ runs[p].pc = "create"
    /\ runs' = [runs EXCEPT ![p].pc = "done"]
    /\ UNCHANGED <<files, audit, uuids, tick, reminders, last, journal, journal_index, conversations, agent, log, moving, appending, processor>>

InterruptedNext ==
    \/ Tick
    \/ \E q \in Requests : CreateReminder(q.content, q.trigger_time, q.repeat)
    \/ RunStart(1)
    \/ RunUpdate(1)
    \/ RunCreate(1)
    \/ RunDies(1)

SpecInterrupted == Init /\ [][InterruptedNext]_vars

\* reminder s is the next occurrence of reminder r
Follows(s, r) ==
    /\ s.content = r.content
    /\ s.repeat = r.repeat
    /\ s.trigger_time = isoformat(NextTrigger(fromisoformat(r.trigger_time), r.repeat))

\* C25: the next occurrence is created before the original is marked
\* triggered, so a triggered repeating reminder has its successor at every
\* moment, and after an interruption between the two writes.
C25_TriggeredRepeatingHasSuccessor ==
    \A i \in 1..Len(reminders) :
        (reminders[i].status = "triggered" /\ Spawns(reminders[i].repeat)) =>
            \E j \in 1..Len(reminders) : Follows(reminders[j], reminders[i])

----------------------------------------------------------------------------
(* More claims about links *)

\* C26: link_entries touches an entry only after the journal side has
\* succeeded: a call for a day without a document changes no entry and no
\* document and returns the journal-side failure, and a call that changes an
\* entry has the day's header listing the id.
C26_JournalSideFirst ==
    [][(last'.op = "link_entries" /\ last' # last /\ last'.journal_date # BadDate) =>
          /\ journal[last'.journal_date] = NoFile =>
                /\ files' = files
                /\ journal' = journal
                /\ last'.result = Failure(JournalSideError)
          /\ files' # files =>
                /\ journal[last'.journal_date] # NoFile
                /\ \E k \in 1..Len(LinkedEntries(journal', last'.journal_date)) :
                       LinkedEntries(journal', last'.journal_date)[k]
                           = ToString(last'.entry_id)]_vars

\* an entry exists, the day has no document, and the call failed on the
\* journal side with the entry left without a reference
C26_Witness ==
    /\ last.op = "link_entries"
    /\ last.journal_date # BadDate
    /\ journal[last.journal_date] = NoFile
    /\ last.result = Failure(JournalSideError)
    /\ \E c \in Range(StorageKeys) : \E i \in 1..Len(files[c]) :
           files[c][i].id = last.entry_id /\ JournalRefs(files[c][i]) = <<>>

\* what follows the header of a day's document
BodyOf(content) == SubSeq(content, FrontMatterEnd(content) + 1, Len(content))

Listed(ids, id) == \E k \in 1..Len(ids) : ids[k] = id

\* C27: for a day without a document add_linked_entry_to_journal fails and
\* creates none; when it succeeds the body after the header is unchanged,
\* every id the header listed is still listed, and read_journal lists the
\* new id.
C27_HeaderPatchKeepsBodyAndIds ==
    [][(last'.op = "link_entries" /\ last' # last /\ last'.journal_date # BadDate) =>
          LET d      == last'.journal_date
              before == read_journal(journal, d).linked_entries
              after  == read_journal(journal', d).linked_entries
          IN  /\ journal[d] = NoFile =>
                    /\ journal' = journal
                    /\ last'.result = Failure(JournalSideError)
              /\ journal[d] # NoFile =>
                    /\ last'.result # Failure(JournalSideError)
                    /\ BodyOf(journal'[d]) = BodyOf(journal[d])
                    /\ BodyOf(journal'[d]) # <<>>
                    /\ \A k \in 1..Len(before) : Listed(after, before[k])
                    /\ Len(after) = Len(before) + 1
                    /\ Listed(after, ToString(last'.entry_id))
                    /\ \A o \in DOMAIN journal : o # d => journal'[o] = journal[o]]_vars

\* an id was added to a header that listed another, above a body of two
\* sections
C27_Witness ==
    /\ last.op = "link_entries"
    /\ last.journal_date # BadDate
    /\ journal[last.journal_date] # NoFile
    /\ SectionsOf(journal[last.journal_date]) = 2
    /\ LinkedEntries(journal, last.journal_date) = <<ToString(last.entry_id), "1">>
    /\ last.entry_id # 1

----------------------------------------------------------------------------
(* More claims about the agent loop *)

\* the last two elements of a sequence of at least two
LastTwo(turns) == SubSeq(turns, Len(turns) - 1, Len(turns))

\* C28: when a model call is due after a tool round, the live message list
\* and the chat's stored history both end with the assistant tool-request turn
\* followed by one user turn that holds the round's tool results, one per
\* tool_use block, in the order of the blocks.
C28_RoundStoredBeforeNextCall ==
    (agent.pc = "calling" /\ agent.rounds > 0) =>
        LET stored   == StoredTurns(conversations, agent.chat_id)
            messages == agent.messages
            request  == stored[Len(stored) - 1]
            results  == stored[Len(stored)]
        IN  /\ Len(stored) >= 2 /\ Len(messages) >= 2
            /\ is_tool_use(request)
            /\ request.content = agent.response.content
            /\ results.role = "user"
            /\ IdsOf(results.content, "tool_use_id")
                   = IdsOf(ToolUses(request.content), "id")
            /\ \A k \in 1..Len(results.content) : results.content[k].type = "tool_result"
            /\ LastTwo(messages) = << Message("assistant", request.content),
                                      Message("user", results.content) >>
            /\ LastTwo(log[ToString(agent.chat_id)]) = LastTwo(stored)

\* a second model call is due after a round of two tool calls
C28_Witness ==
    /\ agent.pc = "calling"
    /\ agent.rounds = 1
    /\ Len(agent.tool_results) = 2
    /\ agent.messages[Len(agent.messages)] = Message("user", agent.tool_results)
    /\ StoredTurns(conversations, agent.chat_id)[3].content = agent.tool_results

----------------------------------------------------------------------------
(* Trigger times with an offset *)

\* hours from timestamp s to timestamp t, both read as wall-clock times
HoursSince(s, t) == (DayNumber(t) - DayNumber(s)) * 24 + t[4] - s[4]

\* r is pending and its trigger time is at or before the clock: for a local
\* time by comparison, for a time with an offset in whatever zone the clock
\* is (no zone is further than 14 hours from UTC)
PastDue(r) ==
    /\ r.status = "pending"
    /\ Len(r.trigger_time) >= 4
    /\ HoursSince(r.trigger_time, isoformat(now))
           >= (IF Len(r.trigger_time) = 4 THEN 0 ELSE 14)

\* C29: a run of process_triggered_reminders returns every pending reminder
\* whose trigger time has come and leaves it triggered, whether the trigger
\* time was given with or without a UTC offset.
C29_EveryDueReminderFires ==
    [][(last'.op = "process_triggered_reminders" /\ ProcessTriggeredReminders) =>
          \A i \in 1..Len(reminders) :
              PastDue(reminders[i]) =>
                  /\ \E k \in 1..Len(last'.returned) :
                         last'.returned[k].id = reminders[i].id
                  /\ reminders'[i].status = "triggered"]_vars

----------------------------------------------------------------------------
(* The write_journal tool and the reminders *)

\* the item of a list of the review that names the reminder
ItemsFor(items, id) == SelectSeq(items, LAMBDA item : item.reminder_id = id)

----------------------------------------------------------------------------
(* The review step of the write_journal tool, with every outcome it can    *)
(* have: an answer, an exception of the review, a list that holds a value  *)
(* that is no object.                                                      *)

ReviewNext ==
    \/ Tick
    \/ \E q \in LifecycleRequests : CreateReminder(q.content, q.trigger_time, q.repeat)
    \/ ProcessTriggeredReminders
    \/ \E text \in DiaryTexts :
         \E answer \in ReviewOutcomes(list_reminders(reminders, "pending")) :
            WriteJournal(text, Omitted, <<>>, answer)

SpecReview == Init /\ [][ReviewNext]_vars

\* C31: when the review step of the write_journal tool raises, the journal
\* text has been written (the day's file has one section more), the tool
\* returns success and every reminder is as it was before the call.
C31_ReviewFailureChangesNoReminder ==
    [][(last'.op = "write_journal" /\ journal' # journal /\ last'.review_failed) =>
          /\ last'.success
          /\ SectionsOf(journal'[last'.journal_date])
                = SectionsOf(journal[last'.journal_date]) + 1
          /\ reminders' = reminders]_vars

\* C32: a journal write made while a reminder is in status triggered submits
\* that reminder to the review, so that the review can complete it.
C32_TriggeredIsSubmittedToReview ==
    [][(last'.op = "write_journal" /\ journal' # journal /\ last'.success) =>
          \A i \in 1..Len(reminders) :
              reminders[i].status = "triggered" =>
                  \E k \in 1..Len(last'.submitted) :
                      last'.submitted[k] = reminders[i].id]_vars

----------------------------------------------------------------------------
(* The reminder processor and the bot are two processes over one reminders *)
(* file: a run of process_triggered_reminders step by step, with the       *)
(* bot's completions between its steps.                                    *)

RaceNext ==
    \/ Tick
    \/ \E q \in LifecycleRequests : CreateReminder(q.content, q.trigger_time, q.repeat)
    \/ RunStart(1)
    \/ RunUpdate(1)
    \/ RunCreate(1)
    \/ \E id \in ReminderIds, note \in Notes : CompleteReminderTool(id, note)
    \/ \E text \in DiaryTexts :
         \E answer \in BridgeAnswers(list_reminders(reminders, "pending")) :
            /\ journal[date_isoformat(now)] = NoFile
            /\ WriteJournal(text, Omitted, <<>>, answer)

SpecRace == Init /\ [][RaceNext]_vars

\* C33: a reminder the bot completed after the run read the due list is
\* still completed after the run has written its status.
C33_CompletedSurvivesTheRun ==
    [][(runs[1].pc = "update" /\ runs' # runs) =>
          \A i \in 1..Len(reminders) :
              reminders[i].status = "completed" =>
                  reminders'[i].status = "completed"]_vars

----------------------------------------------------------------------------
(* The conversation store written for two conversations at once: every     *)
(* add_message loads the whole CONVERSATION_FILE, changes one key and      *)
(* saves the whole file.                                                   *)

\* the chats of the two conversations
StoreChats == {7, 8}

MaxStored == 2

\* line 94: conversations = _load_conversations()
AppendLoad(w, chat_id, content) ==
    /\ appending[w].pc = "idle"
    /\ Len(StoredTurns(conversations, chat_id)) < MaxStored
    /\ appending' = [appending EXCEPT ![w] =
                        [pc |-> "loaded", chat_id |-> chat_id, content |-> content,
                         loaded |-> conversations]]
    /\ UNCHANGED <<files, audit, uuids, tick, reminders, last, runs, journal,
                   journal_index, conversations, agent, log, moving, processor>>

\* lines 95-114: the turn appended under its key in the loaded copy, the
\* list trimmed, and _save_conversations(conversations)
AppendSave(w) ==
    /\ appending[w].pc = "loaded"
    /\ conversations' = add_message(appending[w].loaded, appending[w].chat_id, "user",
                                    StrContent(appending[w].content), now)
    /\ appending' = [appending EXCEPT ![w] = NotAppending]
    /\ UNCHANGED <<files, audit, uuids, tick, reminders, last, runs, journal,
                   journal_index, agent, log, moving, processor>>

\* conversation_state.clear_conversation
ClearConversation(chat_id) ==
    /\ ToString(chat_id) \in DOMAIN conversations
    /\ conversations' = [k \in DOMAIN conversations \ {ToString(chat_id)} |->
                            conversations[k]]
    /\ last' = [op |-> "clear_conversation", chat_id |-> chat_id]
    /\ UNCHANGED <<files, audit, uuids, tick, reminders, runs, journal,
                   journal_index, agent, log, moving, appending, processor>>

StoreNext ==
    \/ Tick
    \/ \E w \in Writers, chat_id \in StoreChats, text \in UserMessages :
           AppendLoad(w, chat_id, text)
    \/ \E w \in Writers : AppendSave(w)
    \/ \E chat_id \in StoreChats : ClearConversation(chat_id)

SpecStore == Init /\ [][StoreNext]_vars

\* the conversations other than chat_id are stored as they were
OthersKept(chat_id) ==
    \A k \in DOMAIN conversations \ {ToString(chat_id)} :
        /\ k \in DOMAIN conversations'
        /\ conversations'[k].messages = conversations[k].messages

\* C34: the save of an add_message and a clear_conversation leave the
\* stored turns of every other conversation as they were, also when the
\* appends of two writers to different conversations interleave.
C34_OtherConversationsUntouched ==
    [][/\ \A w \in Writers :
            (appending[w].pc = "loaded" /\ appending'[w].pc = "idle") =>
                OthersKept(appending[w].chat_id)
       /\ (last'.op = "clear_conversation" /\ conversations' # conversations) =>
                OthersKept(last'.chat_id)]_vars

----------------------------------------------------------------------------
(* The links a journal write is given *)

\* C35: after a successful write_journal with linked_entries L, read_journal
\* of that date lists every id of L, for the first write of the day and for
\* a later one.
C35_WrittenLinksAreListed ==
    [][(last'.op = "write_journal" /\ journal' # journal /\ last'.success) =>
          \A k \in 1..Len(last'.linked_entries) :
              Listed(LinkedEntries(journal', last'.journal_date),
                     last'.linked_entries[k])]_vars

----------------------------------------------------------------------------
(* A run of process_triggered_reminders that comes late *)

\* C36: a call of process_triggered_reminders moves to triggered only
\* reminders that were pending and due when it began and returns only those;
\* every occurrence it creates is pending after the call, also when its
\* trigger time has already passed; and it creates, for each due repeating
\* reminder, the one occurrence that follows it, so a late run advances a
\* chain by one occurrence and leaves out none.
C36_LateRunAdvancesByOne ==
    [][(last'.op = "process_triggered_reminders" /\ ProcessTriggeredReminders) =>
          /\ \A i \in 1..Len(reminders) :
                reminders'[i].status # reminders[i].status =>
                    /\ Due(reminders[i])
                    /\ reminders'[i].status = "triggered"
          /\ Ids(last'.returned)
                = {reminders[i].id : i \in {j \in 1..Len(reminders) : Due(reminders[j])}}
          /\ Len(Appended) = Len(DueRepeating)
          /\ \A k \in 1..Len(Appended) :
                /\ Appended[k].status = "pending"
                /\ Appended[k].id \notin Ids(last'.returned)
                /\ IsNextOccurrence(DueRepeating[k].trigger_time,
                                    DueRepeating[k].repeat,
                                    Appended[k].trigger_time)]_vars

\* a run that came late has triggered a repeating reminder, and the
\* occurrence that follows it is pending although its time has passed too
C36_Witness ==
    /\ last.op = "process_triggered_reminders"
    /\ last.at = tick
    /\ \E i \in 1..Len(last.returned), j \in 1..Len(reminders) :
          /\ Follows(reminders[j], last.returned[i])
          /\ reminders[j].id \notin Ids(last.returned)
          /\ Due(reminders[j])

----------------------------------------------------------------------------
(* Chains that were ended before they fired *)

\* C37: a completed reminder is left as it is by every later call of
\* process_triggered_reminders and a deleted reminder is no longer in the
\* file, and a call creates an occurrence only after a reminder that was
\* pending and due when the call began, one for each: so a chain whose
\* pending reminder was completed or deleted gets no further occurrence.
C37_EndedChainGetsNoSuccessor ==
    [][/\ (last'.op = "process_triggered_reminders" /\ ProcessTriggeredReminders) =>
            /\ \A i \in 1..Len(reminders) :
                  reminders[i].status = "completed" =>
                      /\ reminders'[i] = reminders[i]
                      /\ reminders[i].id \notin Ids(last'.returned)
            /\ Len(Appended) = Len(DueRepeating)
            /\ \A k \in 1..Len(Appended) :
                  \E i \in 1..Len(reminders) :
                      /\ Due(reminders[i]) /\ Repeating(reminders[i])
                      /\ Appended[k].content = reminders[i].content
                      /\ Appended[k].repeat = reminders[i].repeat
                      /\ IsNextOccurrence(reminders[i].trigger_time, reminders[i].repeat,
                                          Appended[k].trigger_time)
       /\ (last'.op = "delete_reminder" /\ last'.success /\ reminders' # reminders) =>
            last'.id \notin Ids(reminders')
       /\ (last'.op = "complete_reminder" /\ last'.success /\ reminders' # reminders) =>
            \A i \in 1..Len(reminders') :
                reminders'[i].id = last'.id => reminders'[i].status = "completed"]_vars

\* a run found nothing to do: the only reminder, a repeating one whose time
\* has passed, was completed while it was pending, and it has no successor
C37_Witness ==
    /\ last.op = "process_triggered_reminders"
    /\ last.returned = <<>>
    /\ Len(reminders) = 1
    /\ reminders[1].status = "completed"
    /\ Repeating(reminders[1])
    /\ Len(reminders[1].trigger_time) = 4
    /\ Stamp(reminders[1].trigger_time) <= Stamp(isoformat(now))

----------------------------------------------------------------------------
(* process_reminders of the reminder processor: the whole of               *)
(* process_triggered_reminders first, then for each reminder it returned   *)
(* the enrichment and the send.                                            *)

\* the text enrich_reminder_delivery returns when the inference answers
Enriched(content) == content \o " - mentioned in the diary yesterday"

\* how the enrichment of one reminder can end: a text with context, the bare
\* content (no context, or the inference failed inside the bridge), or an
\* exception that process_reminders catches
Enrichments == {"enriched", "bare", "raises"}

\* line 348: triggered = reminder_storage.process_triggered_reminders()
DeliverStart ==
    /\ processor.pc = "idle"
    /\ Len(reminders) + DueSpawns <= MaxReminders
    /\ LET r == process_triggered_reminders(reminders, uuids, now)
       IN  /\ reminders' = r.reminders
           /\ uuids' = r.uuids
           /\ last' = [op |-> "process_triggered_reminders", at |-> tick,
                       returned |-> r.notify]
           /\ processor' = [processor EXCEPT
                                !.triggered = r.notify, !.i = 1,
                                !.pc = IF r.notify = <<>> THEN "idle" ELSE "enrich"]
    /\ UNCHANGED <<files, audit, tick, runs, journal, journal_index, conversations,
                   agent, log, moving, appending>>

\* the enrichment that ends the pass for this reminder when it raises
Enrich_Skip(outcome) ==
    /\ processor.pc = "enrich"
    /\ LET content == processor.triggered[processor.i].content
           last_one == processor.i + 1 > Len(processor.triggered)
       IN  processor' =
              IF outcome = "raises"
              THEN [processor EXCEPT !.i = @ + 1,
                                     !.pc = IF last_one THEN "idle" ELSE "enrich"]
              ELSE [processor EXCEPT
                       !.pc = "send",
                       !.enriched_content = IF outcome = "enriched"
                                            THEN Enriched(content) ELSE content]
    /\ UNCHANGED <<files, audit, uuids, tick, reminders, last, runs, journal,
                   journal_index, conversations, agent, log, moving, appending>>

\* lines 362-369: enriched_content = content, then the try around
\* enrich_reminder_delivery
Enrich(outcome) ==
    /\ processor.pc = "enrich"
    /\ LET content == processor.triggered[processor.i].content
       IN  processor' = [processor EXCEPT
                            !.pc = "send",
                            !.enriched_content = IF outcome = "enriched"
                                                 THEN Enriched(content) ELSE content]
    /\ UNCHANGED <<files, audit, uuids, tick, reminders, last, runs, journal,
                   journal_index, conversations, agent, log, moving, appending>>

\* lines 375-384: the try around bot.send_message; sent is whether it returned
Send(sent) ==
    /\ processor.pc = "send"
    /\ LET reminder == processor.triggered[processor.i]
           last_one == processor.i + 1 > Len(processor.triggered)
       IN  processor' = [processor EXCEPT
                            !.attempted = Append(@, reminder.id),
                            !.failed = IF sent THEN @ ELSE Append(@, reminder.id),
                            !.delivered = IF sent
                                          THEN Append(@, [id |-> reminder.id,
                                                          text |-> processor.enriched_content])
                                          ELSE @,
                            !.i = @ + 1,
                            !.pc = IF last_one THEN "idle" ELSE "enrich"]
    /\ UNCHANGED <<files, audit, uuids, tick, reminders, last, runs, journal,
                   journal_index, conversations, agent, log, moving, appending>>

DeliveryNext ==
    \/ Tick
    \/ \E q \in Requests : CreateReminder(q.content, q.trigger_time, q.repeat)
    \/ DeliverStart
    \/ \E outcome \in Enrichments : Enrich(outcome)
    \/ \E sent \in BOOLEAN : Send(sent)

SpecDelivery == Init /\ [][DeliveryNext]_vars

\* the stored record with this id has this status
HasStatus(id, status) ==
    \E i \in 1..Len(reminders) : reminders[i].id = id /\ reminders[i].status = status

\* C38: while process_reminders enriches and sends, every reminder of its
\* list is already stored as triggered and, if it repeats, has its
\* successor; when the loop is over a send was attempted for each of them,
\* whatever the enrichment did; a reminder whose send failed is still
\* triggered; and no reminder is ever handed to the send twice, by this
\* call or by a later one.
C38_DeliveredAtMostOnce ==
    /\ \A k \in 1..Len(processor.triggered) :
          LET reminder == processor.triggered[k]
          IN  /\ HasStatus(reminder.id, "triggered")
              /\ Spawns(reminder.repeat) =>
                    \E j \in 1..Len(reminders) : Follows(reminders[j], reminder)
              /\ (processor.pc = "idle" \/ k < processor.i) =>
                    Listed(processor.attempted, reminder.id)
    /\ NoDuplicates(processor.attempted)
    /\ \A k \in 1..Len(processor.failed) :
          HasStatus(processor.failed[k], "triggered")

\* the send of a reminder failed, nothing was delivered, and a later call
\* of process_triggered_reminders returned nothing
C38_Witness ==
    /\ processor.pc = "idle"
    /\ processor.triggered = <<>>
    /\ last.op = "process_triggered_reminders"
    /\ last.returned = <<>>
    /\ processor.failed # <<>>
    /\ processor.delivered = <<>>

----------------------------------------------------------------------------
(* A model call that raises after tools have changed the stores *)

\* a tool call that changes the Reminder Store
CompletingCall == Use("complete_reminder", [reminder_id |-> 1])

ChangingResponses ==
    { Response("tool_use", <<CompletingCall>>),
      Response("tool_use", <<SucceedingCall, CompletingCall>>),
      Response("tool_use", <<NotFoundCall>>) }

FailureNext ==
    \/ \E q \in LifecycleRequests :
           /\ agent.received = 0
           /\ CreateReminder(q.content, q.trigger_time, q.repeat)
    \/ \E chat_id \in Chats, user_message \in UserMessages :
           /\ agent.received < MaxMessages
           /\ Receive(chat_id, user_message)
    \/ ModelResponds(PlainResponse)
    \/ \E response \in ChangingResponses :
           /\ agent.rounds < MaxRounds
           /\ ModelResponds(response)
    \/ ModelRaises
    \/ ExecuteTool
    \/ AppendAssistant
    \/ AppendResults
    \/ Finish

SpecFailure == Init /\ [][FailureNext]_vars

\* the reminders the complete_reminder calls of a stored turn name
Completed(turn) ==
    {block.input.reminder_id :
        block \in {b \in Range(ToolUses(turn.content)) :
                      b.name = "complete_reminder" /\ "reminder_id" \in DOMAIN b.input}}

\* C39: after a model call has raised, the chat's stored history is the user
\* turn followed by the tool-request turn and the tool-result turn of every
\* round that was run, nothing of it taken back and no final assistant turn
\* after it, and every reminder a dispatched complete_reminder call completed
\* is still completed.
C39_FailureKeepsWhatWasStored ==
    (agent.pc = "idle" /\ agent.reply = "Error: " \o ModelError) =>
        LET stored == StoredTurns(conversations, agent.chat_id)
            before == Len(stored) - (1 + 2 * agent.rounds)
        IN  /\ stored = log[ToString(agent.chat_id)]
            /\ before >= 0
            /\ stored[before + 1].role = "user" /\ ~IsList(stored[before + 1].content)
            /\ \A k \in 1..agent.rounds :
                  /\ is_tool_use(stored[before + 2 * k])
                  /\ is_tool_result(stored[before + 2 * k + 1])
                  /\ \A id \in Completed(stored[before + 2 * k]) :
                        id \in Ids(reminders) => HasStatus(id, "completed")
            /\ stored[Len(stored)].role = "user"

\* the model call after a round that completed a reminder raised
C39_Witness ==
    /\ agent.pc = "idle"
    /\ agent.reply = "Error: " \o ModelError
    /\ agent.rounds = 1
    /\ HasStatus(1, "completed")
    /\ Len(StoredTurns(conversations, agent.chat_id)) = 3
    /\ 1 \in Completed(StoredTurns(conversations, agent.chat_id)[2])

----------------------------------------------------------------------------
(* Entries that a day's document lists, moved and deleted *)

\* the review of a journal write when no reminder is pending
NoAnswer == [raises |-> FALSE, auto_complete |-> <<>>, relevant_mentions |-> <<>>]

DanglingNext ==
    \/ AgentCreateEntry("people", "Felipe cumple el 3 de marzo", CONFIDENCE_THRESHOLD)
    \/ \E text \in DiaryTexts : WriteJournal(text, Omitted, <<"1">>, NoAnswer)
    \/ \E d \in JournalDates : LinkEntries(d, 1, "mentions")
    \/ \E id \in EntryIds, to_category \in {"ideas", "inbox"} :
           AgentMoveEntry(id, "people", to_category)
    \/ \E id \in EntryIds, category \in {"people", "ideas"} : AgentDeleteEntry(id, category)

SpecDangling == Init /\ [][DanglingNext]_vars

\* C40: a move_entry or delete_entry that changes the entry collections
\* leaves every journal document and the journal index as they were, so
\* each day lists the ids it listed before.
C40_MoveAndDeleteLeaveJournalAlone ==
    [][(last'.op \in {"move_entry", "delete_entry"} /\ last'.success /\ files' # files) =>
          /\ journal' = journal
          /\ journal_index' = journal_index
          /\ \A d \in JournalDates :
                LinkedEntries(journal', d) = LinkedEntries(journal, d)]_vars

\* an entry was deleted and a day's document still lists its id
C40_Witness ==
    /\ last.op = "delete_entry"
    /\ last.success
    /\ TotalCount(files, last.entry_id) = 0
    /\ \E d \in JournalDates : DayListsEntry(d, last.entry_id)

====
